---- MODULE Spec2Model ----
(***************************************************************************)
(* The tarball-backed package cache of the CDN routes (npm and GitHub):    *)
(* one PackageKey cdn/<eco>/<name>/<version>, the storage keys below it,   *)
(* and the request handlers and warmups that read and write them.          *)
(* Spec is the cache of one resolved PackageKey; SpecResolver is the        *)
(* version resolution and branch selection of the npm, JSR, GitHub and     *)
(* cdnjs handlers for one request against fixed upstream metadata.         *)
(* SpecWinget is the WinGet package index (buildPackageIndex and its        *)
(* rebuilds), SpecManifest the manifest file cache next to it, and         *)
(* SpecSearch the query filter of the manifest search.  SpecPackages is    *)
(* the paginated package listing of the WinGet source, SpecExtract the     *)
(* root-directory detection of the tarball extraction, and SpecWp the      *)
(* WordPress plugin handler with its single-file cache.  SpecFair,         *)
(* SpecPackagesFair and SpecWpFair add the fairness of the server's own    *)
(* steps for the liveness properties.                                      *)
(***************************************************************************)
EXTENDS Integers, Sequences, FiniteSets, TLC

\* ------------------------------------------------------------------ bounds
NumTasks == 2      \* request slots that can be in flight at the same time
MaxReq == 2        \* requests started in one behaviour
MaxRev == 2        \* upstream revisions of a moving ref

Tasks == 1..NumTasks

\* A version string is the sequence of its characters.
V_1_2_3 == <<"1", ".", "2", ".", "3">>
V_1_2 == <<"1", ".", "2">>
V_v1_2_3 == <<"v", "1", ".", "2", ".", "3">>
V_main == <<"m", "a", "i", "n">>

\* A relative path is the sequence of its segments.  The files of the package
\* tarball, in archive order: "a" and "d/b".
P_a == <<"a">>
P_d_b == <<"d", "b">>
P_d == <<"d">>
FileOrder == <<P_a, P_d_b>>
Files == {FileOrder[i] : i \in 1..Len(FileOrder)}

\* The paths a file request asks for: the files and the directory "d".
ReqPaths == Files \cup {P_d}

Absent == 0                     \* no bytes: a missing key, a missing entry

\* ------------------------------------------------- version classification
Digit(c) == c \in {"0", "1", "2", "3", "4", "5", "6", "7", "8", "9"}

RECURSIVE SkipDigits(_, _)
SkipDigits(s, i) == IF i <= Len(s) /\ Digit(s[i]) THEN SkipDigits(s, i + 1) ELSE i

\* \d+ at position i: the position after the digits, 0 when there is none
MatchNumber(s, i) == IF i > 0 /\ i <= Len(s) /\ Digit(s[i]) THEN SkipDigits(s, i) ELSE 0

MatchDot(s, i) == IF i > 0 /\ i <= Len(s) /\ s[i] = "." THEN i + 1 ELSE 0

\* /^\d+\.\d+\.\d+/.test(s)
SemverPrefix(s) ==
  MatchNumber(s, MatchDot(s, MatchNumber(s, MatchDot(s, MatchNumber(s, 1))))) # 0

isCompleteSemverNpm(v) == SemverPrefix(v)

\* version.replace(/^v/, "")
StripV(v) == IF Len(v) > 0 /\ v[1] = "v" THEN Tail(v) ELSE v

isCompleteSemverGh(v) == SemverPrefix(StripV(v))

isBranch(v) == v \in {V_main, <<"m", "a", "s", "t", "e", "r">>, <<"d", "e", "v">>}

\* Variant with the branch test inverted: a branch counts as immutable.
IsImmutableKeyBranchInverted(e, v) ==
  IF e = "npm" THEN isCompleteSemverNpm(v)
  ELSE isBranch(v) \/ isCompleteSemverGh(v)

\* The key is handled as immutable: isNpmPackageCached / isGitHubCached read
\* the manifest, ensurePackageCached / ensureGitHubCached do not remove.
IsImmutableKey(e, v) ==
  IF e = "npm" THEN isCompleteSemverNpm(v)
  ELSE ~(isBranch(v) \/ ~isCompleteSemverGh(v))

\* ------------------------------------------------------------------ semver
\* The version strings and specifiers of the resolver.  null (no match, no
\* tag, no specifier in the path) is the empty string.
NoVersion == <<>>
V_1_3_0 == <<"1", ".", "3", ".", "0">>
V_2_0_0 == <<"2", ".", "0", ".", "0">>
S_latest == <<"l", "a", "t", "e", "s", "t">>
S_1 == <<"1">>
S_9 == <<"9">>
S_caret == <<"^", "1", ".", "2", ".", "3">>
S_sha == [i \in 1..40 |-> IF i % 2 = 1 THEN "a" ELSE "0"]

Digits == <<"0", "1", "2", "3", "4", "5", "6", "7", "8", "9">>
DigitVal(c) == (CHOOSE i \in 1..10 : Digits[i] = c) - 1

\* the number written by the digits s[i..j-1]
RECURSIVE NumVal(_, _, _, _)
NumVal(s, i, j, acc) == IF i >= j THEN acc ELSE NumVal(s, i + 1, j, 10 * acc + DigitVal(s[i]))

\* [v]N[.N[.N]]: n is the number of components given, 0 when the string is
\* not of that form.  Prerelease and build suffixes are not among the
\* strings drawn.  e1, e2, e3 are the positions after each number.
NotPartial == [n |-> 0, v |-> <<0, 0, 0>>]

Partial3(s, e1, e2, e3) ==
  IF e3 = Len(s) + 1
  THEN [n |-> 3, v |-> <<NumVal(s, 1, e1, 0), NumVal(s, e1 + 1, e2, 0), NumVal(s, e2 + 1, e3, 0)>>]
  ELSE NotPartial

Partial2(s, e1, e2) ==
  IF e2 = 0 THEN NotPartial
  ELSE IF e2 = Len(s) + 1
  THEN [n |-> 2, v |-> <<NumVal(s, 1, e1, 0), NumVal(s, e1 + 1, e2, 0), 0>>]
  ELSE Partial3(s, e1, e2, MatchNumber(s, MatchDot(s, e2)))

Partial1(s, e1) ==
  IF e1 = 0 THEN NotPartial
  ELSE IF e1 = Len(s) + 1 THEN [n |-> 1, v |-> <<NumVal(s, 1, e1, 0), 0, 0>>]
  ELSE Partial2(s, e1, MatchNumber(s, MatchDot(s, e1)))

PartialOf(s) == Partial1(s, MatchNumber(s, 1))

ParsePartial(s0) == PartialOf(StripV(s0))

\* semver.valid(v): a full version, optional leading v
valid(v) == ParsePartial(v).n = 3

\* semver.compare on parsed versions: a < b
Lt(a, b) ==
  \/ a[1] < b[1]
  \/ a[1] = b[1] /\ a[2] < b[2]
  \/ a[1] = b[1] /\ a[2] = b[2] /\ a[3] < b[3]

\* new semver.Range(r): [lo, hi) for a partial version (x-range) or a caret
\* range, ok = FALSE when the constructor throws.
CaretHi(n, M, m, q) ==
  IF M > 0 \/ n = 1 THEN <<M + 1, 0, 0>>
  ELSE IF m > 0 \/ n = 2 THEN <<0, m + 1, 0>>
  ELSE <<0, 0, q + 1>>

XRangeHi(n, M, m, q) ==
  IF n = 1 THEN <<M + 1, 0, 0>>
  ELSE IF n = 2 THEN <<M, m + 1, 0>>
  ELSE <<M, m, q + 1>>

RangeOf(caret, p) ==
  [ok |-> p.n > 0, lo |-> p.v,
   hi |-> IF caret THEN CaretHi(p.n, p.v[1], p.v[2], p.v[3])
          ELSE XRangeHi(p.n, p.v[1], p.v[2], p.v[3])]

Range(r) ==
  IF Len(r) > 0 /\ r[1] = "^" THEN RangeOf(TRUE, ParsePartial(Tail(r)))
  ELSE RangeOf(FALSE, ParsePartial(r))

\* range.test(v): an invalid version never satisfies
InRange(p, rg) == p.n = 3 /\ ~Lt(p.v, rg.lo) /\ Lt(p.v, rg.hi)

satisfies(v, rg) == InRange(ParsePartial(v), rg)

\* semver.compare(max, v) = -1, or there is no max yet
Newer(max, v) == max = NoVersion \/ Lt(ParsePartial(max).v, ParsePartial(v).v)

\* semver.maxSatisfying(versions, range): the first of the highest versions
\* that satisfy the range, null when none does or the range is invalid
RECURSIVE MaxSatFrom(_, _, _, _)
MaxSatFrom(list, rg, i, max) ==
  IF i > Len(list) THEN max
  ELSE MaxSatFrom(list, rg, i + 1,
                  IF satisfies(list[i], rg) /\ Newer(max, list[i]) THEN list[i] ELSE max)

MaxSatIn(list, rg) == IF rg.ok THEN MaxSatFrom(list, rg, 1, NoVersion) ELSE NoVersion

maxSatisfying(list, r) == MaxSatIn(list, Range(r))

\* allVersions.sort(semver.rcompare)[0]: the sort is stable, so the first of
\* the highest versions
RECURSIVE HighestFrom(_, _, _)
HighestFrom(list, i, max) ==
  IF i > Len(list) THEN max
  ELSE HighestFrom(list, i + 1, IF Newer(max, list[i]) THEN list[i] ELSE max)

sortedFirst(list) == HighestFrom(list, 1, NoVersion)

Includes(list, v) == \E i \in 1..Len(list) : list[i] = v

\* ---------------------------------------------------------------- resolver
CC_short == "public, max-age=600"
CC_immutable == "public, max-age=31536000, immutable"

isCompleteSemverCdnjs(v) == SemverPrefix(StripV(v))

getNpmCacheControl(v) == IF ~isCompleteSemverNpm(v) THEN CC_short ELSE CC_immutable
getJsrCacheControl(v) == IF ~isCompleteSemverNpm(v) THEN CC_short ELSE CC_immutable
getCacheControl(v) == IF isBranch(v) \/ ~isCompleteSemverGh(v) THEN CC_short ELSE CC_immutable
getCdnjsCacheControl(v) == IF ~isCompleteSemverCdnjs(v) THEN CC_short ELSE CC_immutable

\* Variant that derives the header from the specifier of the request path.
CacheControlFromSpecifier(e, x, v) ==
  IF e = "npm" THEN getNpmCacheControl(x)
  ELSE IF e = "jsr" THEN getJsrCacheControl(x)
  ELSE IF e = "gh" THEN getCacheControl(x)
  ELSE getCdnjsCacheControl(x)

\* event.res.headers.set("Cache-Control", get*CacheControl(version)) of a file
\* response: x is the specifier of the request path, v the handler's version
\* variable at that point.
CacheControl(e, x, v) ==
  IF e = "npm" THEN getNpmCacheControl(v)
  ELSE IF e = "jsr" THEN getJsrCacheControl(v)
  ELSE IF e = "gh" THEN getCacheControl(v)
  ELSE getCdnjsCacheControl(v)

\* The outcome of a resolution: the status (200: resolved), the version
\* variable (cache key, header), the version whose metadata and tarball are
\* used, and whether the metadata API was consulted.
Resolved(v, api) == [status |-> 200, version |-> v, info |-> v, api |-> api]
Rejected(s, v) == [status |-> s, version |-> v, info |-> NoVersion, api |-> TRUE]

\* semver.rcompare throws on a string that is not a version; the comparator
\* runs as soon as there are two elements.
sortThrows(V) == Len(V) >= 2 /\ \E i \in 1..Len(V) : ~valid(V[i])

\* if (matchedVersion) { version = matchedVersion } else: the next step
OrElse(matchedVersion, next) ==
  IF matchedVersion # NoVersion THEN Resolved(matchedVersion, TRUE) ELSE next

\* Variant that tries the dist-tag before the versions map.
registryLookupTagFirst(V, tag, version) ==
  IF tag # NoVersion /\ Includes(V, tag) THEN Resolved(tag, TRUE)
  ELSE Rejected(404, version)

\* Variant whose dist-tag fallback serves the tagged version but leaves the
\* version variable at the alias.
registryLookupKeepsAlias(V, tag, version) ==
  IF Includes(V, version) THEN Resolved(version, TRUE)
  ELSE OrElse(maxSatisfying(V, version),
              IF tag # NoVersion /\ Includes(V, tag)
              THEN [status |-> 200, version |-> version, info |-> tag, api |-> TRUE]
              ELSE Rejected(404, version))

\* npm and JSR: metadata.versions[version], then semver.maxSatisfying, then
\* dist-tags.latest, else "Version not found".  V are the keys of
\* metadata.versions, tag is dist-tags.latest.
registryLookup(V, tag, version) ==
  IF Includes(V, version) THEN Resolved(version, TRUE)
  ELSE OrElse(maxSatisfying(V, version),
              IF tag # NoVersion /\ Includes(V, tag) THEN Resolved(tag, TRUE)
              ELSE Rejected(404, IF tag # NoVersion THEN tag ELSE version))

\* version = pkgVersion || "latest"; a failed metadata fetch is "Package not
\* found".
resolveRegistry(V, tag, ok, x) ==
  IF ~ok THEN Rejected(404, x)
  ELSE registryLookup(V, tag, IF x = NoVersion THEN S_latest ELSE x)

\* allVersions.sort(semver.rcompare)[0]
latestOf(V, version) ==
  IF sortThrows(V) THEN Rejected(500, version) ELSE Resolved(sortedFirst(V), TRUE)

\* GitHub, the jsDelivr list at hand: an exact match, then (with a specifier)
\* semver.maxSatisfying, then the highest version; the version stays as
\* given when nothing is listed.
ghLookup(V, x, version) ==
  IF Includes(V, version) THEN Resolved(version, TRUE)
  ELSE OrElse(IF x # NoVersion THEN maxSatisfying(V, x) ELSE NoVersion,
              IF Len(V) > 0 THEN latestOf(V, version) ELSE Resolved(version, TRUE))

\* let version = repoVersion || "main"; a complete semver skips the jsDelivr
\* API, and so does a failed fetch.
ghResolve(V, ok, x, version) ==
  IF x # NoVersion /\ isCompleteSemverGh(version) THEN Resolved(version, FALSE)
  ELSE IF ~ok THEN Resolved(version, TRUE)
  ELSE ghLookup(V, x, version)

resolveGh(V, ok, x) == ghResolve(V, ok, x, IF x = NoVersion THEN V_main ELSE x)

\* cdnjs, the library API at hand: exact match, semver.maxSatisfying,
\* highest version, and apiData.version (tag) when no versions are listed.
cdnjsLookup(V, tag, version) ==
  IF Len(V) = 0 THEN Resolved(tag, TRUE)
  ELSE IF Includes(V, version) THEN Resolved(version, TRUE)
  ELSE OrElse(IF version # NoVersion THEN maxSatisfying(V, version) ELSE NoVersion,
              latestOf(V, version))

\* a complete semver skips the library API; a failed fetch is "Library not
\* found".
cdnjsResolve(V, tag, ok, version) ==
  IF version # NoVersion /\ isCompleteSemverCdnjs(version) THEN Resolved(version, FALSE)
  ELSE IF ~ok THEN Rejected(404, version)
  ELSE cdnjsLookup(V, tag, version)

\* "latest" counts as no version
resolveCdnjs(V, tag, ok, x) == cdnjsResolve(V, tag, ok, IF x = S_latest THEN NoVersion ELSE x)

resolve(e, V, tag, ok, x) ==
  IF e \in {"npm", "jsr"} THEN resolveRegistry(V, tag, ok, x)
  ELSE IF e = "gh" THEN resolveGh(V, ok, x)
  ELSE resolveCdnjs(V, tag, ok, x)

\* if (!filepath) { if (hasTrailingSlash) listing else entry file }
rootBranch(root, slash) == IF ~root THEN "file" ELSE IF slash THEN "listing" ELSE "entry"

\* cdnjs: when the library API was consulted an empty filepath becomes
\* apiData.filename before the branches are looked at; otherwise an empty
\* filepath without the slash fetches the default filename, and with the
\* slash lists the files.
cdnjsBranch(root, slash, api, ok, hasFilename) ==
  IF ~root THEN "file"
  ELSE IF api /\ hasFilename THEN "entry"
  ELSE IF ~slash THEN IF ok /\ hasFilename THEN "entry" ELSE "file"
  ELSE "listing"

\* Construct GitHub tarball URL using codeload
Is40Hex(v) ==
  /\ Len(v) = 40
  /\ \A i \in 1..40 : Digit(v[i]) \/ v[i] \in {"a", "b", "c", "d", "e", "f"}

getGitHubTarballUrl(v) ==
  IF Is40Hex(v) THEN [ref |-> "commit", name |-> v]
  ELSE IF isBranch(v) THEN [ref |-> "heads", name |-> v]
  ELSE [ref |-> "tags", name |-> v]

\* The response of a handler to one request: resolution, branch, header.
NoRes == [status |-> 0, version |-> NoVersion, info |-> NoVersion, api |-> FALSE,
          branch |-> "none", cc |-> ""]

branchOf(e, root, slash, api, ok, hasFilename) ==
  IF e = "cdnjs" THEN cdnjsBranch(root, slash, api, ok, hasFilename) ELSE rootBranch(root, slash)

\* The listing carries the short header, a file the header of the version.
Respond(e, x, r, b) ==
  IF r.status # 200
  THEN [status |-> r.status, version |-> r.version, info |-> r.info, api |-> r.api,
        branch |-> "none", cc |-> ""]
  ELSE [status |-> 200, version |-> r.version, info |-> r.info, api |-> r.api,
        branch |-> b,
        cc |-> IF b = "listing" THEN CC_short ELSE CacheControl(e, x, r.version)]

Dispatch(e, x, r, root, slash, ok, hasFilename) ==
  Respond(e, x, r, branchOf(e, root, slash, r.api, ok, hasFilename))

Handle(e, V, tag, ok, hasFilename, x, root, slash) ==
  Dispatch(e, x, resolve(e, V, tag, ok, x), root, slash, ok, hasFilename)

\* `await fetch(url)` of the metadata stands outside any try block: a
\* network error rejects the promise and the request ends with 500, whenever
\* the handler consults the metadata API (r.api).  A response that is not
\* ok, 4xx or 5xx alike, takes the `!res.ok` path of the handler (r).
fetchMetadata(failure, r) ==
  IF failure = "network" /\ r.api
  THEN [status |-> 500, version |-> r.version, info |-> NoVersion, api |-> TRUE,
        branch |-> "none", cc |-> ""]
  ELSE r

\* --------------------------------------------------- GitHub root entry file
NoEntry == [status |-> 0, file |-> "none"]

\* getOrCacheFile: the bytes of the file, or HTTPError 404 "File not found"
\* thrown when the tarball has no such entry; it never returns a falsy value.
getOrCacheFile(present) == IF present THEN "data" ELSE "throw404"

\* The index.js fallback, inside try/catch.
entryIndexJs(fileData) ==
  IF fileData = "throw404" THEN [status |-> 404, file |-> "none"]
  ELSE [status |-> 200, file |-> "index.js"]

\* Root without trailing slash: README.md is fetched outside any try, so
\* its 404 ends the request; the fallback runs only for a falsy fileData.
entryReadme(fileData, hasIndex) ==
  IF fileData = "throw404" THEN [status |-> 404, file |-> "none"]
  ELSE IF fileData # "" THEN [status |-> 200, file |-> "README.md"]
  ELSE entryIndexJs(getOrCacheFile(hasIndex))

ghEntryFile(hasReadme, hasIndex) == entryReadme(getOrCacheFile(hasReadme), hasIndex)

EntryOf(e, r, hasReadme, hasIndex) ==
  IF e = "gh" /\ r.status = 200 /\ r.branch = "entry"
  THEN ghEntryFile(hasReadme, hasIndex) ELSE NoEntry

\* ----------------------------------------------------------------- upstream
\* The upstream ref moves only when it is a branch; a published version or
\* a tag always yields the same tarball.
RefMoves(v) == isBranch(v)

\* The tarball of revision r, root directory stripped: relative path ->
\* bytes.  Revision r carries bytes r; an even revision has dropped "d/b".
Tarball(r) == [f \in Files |-> IF f = P_d_b /\ r % 2 = 0 THEN Absent ELSE r]

\* files.find(f => relativePath === filepath)
FindEntry(r, p) == IF p \in Files THEN Tarball(r)[p] ELSE Absent

SizeOf(d) == 10 * d

\* sha256-<base64 digest>
calculateIntegrity(d) == 100 + d

\* fileList as built from the archive: name and size, no integrity yet
NewEntry(f, d) == [name |-> f, size |-> SizeOf(d), integrity |-> Absent]

RECURSIVE EntriesFrom(_, _)
EntriesFrom(r, i) ==
  IF i > Len(FileOrder) THEN <<>>
  ELSE LET f == FileOrder[i]
           rest == EntriesFrom(r, i + 1)
       IN IF Tarball(r)[f] # Absent THEN <<NewEntry(f, Tarball(r)[f])>> \o rest ELSE rest

BuildFileList(r) == EntriesFrom(r, 1)

\* fileItem.integrity = integrity for the entry named f
SetIntegrity(list, f, g) ==
  [i \in 1..Len(list) |-> IF list[i].name = f THEN [list[i] EXCEPT !.integrity = g] ELSE list[i]]

\* ------------------------------------------------------------------ storage
NoMeta == [present |-> FALSE, files |-> <<>>]
EmptyRaw == [f \in Files |-> Absent]

\* storage.removeItem(cacheBase): the key and every key below the prefix
removeItemRaw(r) == EmptyRaw
removeItemMeta(m) == NoMeta

\* storage.getItemRaw(cacheBase + "/" + p) on the raw keys r
getItemRaw(r, p) == IF p \in Files THEN r[p] ELSE Absent

\* allFiles.filter(name.startsWith(dirPrefix)).map({name: name.slice(..), size})
\*   .filter(name.length > 0)
IsBelow(name, dir) == Len(name) > Len(dir) /\ SubSeq(name, 1, Len(dir)) = dir

RECURSIVE DirContentsFrom(_, _, _)
DirContentsFrom(list, dir, i) ==
  IF i > Len(list) THEN <<>>
  ELSE LET rest == DirContentsFrom(list, dir, i + 1)
       IN IF IsBelow(list[i].name, dir)
          THEN <<[name |-> SubSeq(list[i].name, Len(dir) + 1, Len(list[i].name)),
                  size |-> list[i].size, integrity |-> Absent]>> \o rest
          ELSE rest

DirContents(list, dir) == DirContentsFrom(list, dir, 1)

\* ------------------------------------------------------------ WinGet index
MaxClock == 2          \* clock ticks in one behaviour
UPDATE_INTERVAL == 1   \* 600 s; the clock ticks in units of 600 s
NoTime == -1           \* the key has no mtime meta

\* Single-letter directories of manifests/.
Letters == {"m", "g"}

VersionNames == <<"1.0", "2.0", "3.0", "4.0">>

\* Recursive tree of a letter directory at upstream revision r, paths
\* relative to the letter directory: directories, manifests and other files.
\* Revision r of letter m holds versions 1..r of one package; letter g does
\* not change.
MicrosoftTree(r) ==
  {<<"Microsoft">>, <<"Microsoft", "VSCode">>}
    \cup UNION {{<<"Microsoft", "VSCode", VersionNames[i]>>,
                 <<"Microsoft", "VSCode", VersionNames[i], "Microsoft.VSCode.yaml">>,
                 <<"Microsoft", "VSCode", VersionNames[i], "README.md">>} : i \in 1..r}

GitTree ==
  {<<"Git">>, <<"Git", "Git">>, <<"Git", "Git", "1.0">>,
   <<"Git", "Git", "1.0", "Git.Git.yaml">>}

LetterTree(l, r) == IF l = "m" THEN MicrosoftTree(r) ELSE GitTree

NoId == <<>>

\* path.endsWith(".yaml")
endsWithYaml(path) == path[Len(path)] \in {"Microsoft.VSCode.yaml", "Git.Git.yaml"}

\* /^manifests\/[a-z0-9]\/([^/]+)\/([^/]+)\// else /^([^/]+)\/([^/]+)\//
parsePackageIdentifier(path) ==
  IF Len(path) >= 5 /\ path[1] = "manifests" /\ path[2] \in Letters
  THEN <<path[3], path[4]>>
  ELSE IF Len(path) >= 3 THEN <<path[1], path[2]>>
  ELSE NoId

\* /^manifests\/[a-z0-9]\/[^/]+\/[^/]+\/([^/]+)\// else /^[^/]+\/[^/]+\/([^/]+)\//
parseVersion(path) ==
  IF Len(path) >= 6 /\ path[1] = "manifests" /\ path[2] \in Letters THEN path[5]
  ELSE IF Len(path) >= 4 THEN path[3]
  ELSE ""

\* The index entries of a list of paths: Map<PackageIdentifier, Set<Version>>
\* as the set of its (identifier, version) pairs.
indexEntries(paths) ==
  {<<parsePackageIdentifier(p), parseVersion(p)>> :
     p \in {q \in paths : /\ endsWithYaml(q)
                          /\ parsePackageIdentifier(q) # NoId
                          /\ parseVersion(q) # ""}}

\* One element of letterResults.
Pending == [state |-> "pending", paths |-> {}]
LetterFailed == [state |-> "failed", paths |-> {}]
LetterOk(paths) == [state |-> "ok", paths |-> paths]

\* Variant of the index construction that gives up on any failed letter.
buildIndexAllOrNothing(results) ==
  IF \E l \in Letters : results[l].state # "ok" THEN {}
  ELSE UNION {indexEntries(results[l].paths) : l \in Letters}

\* for (const result of letterResults): failed letters are skipped
buildIndex(results) ==
  UNION {indexEntries(results[l].paths) : l \in {k \in Letters : results[k].state = "ok"}}

\* A cached item with its mtime meta.
NoItem == [has |-> FALSE, value |-> {}, mtime |-> NoTime]
Item(v, time) == [has |-> TRUE, value |-> v, mtime |-> time]

\* if (meta?.mtime) { cacheAge = (now - mtime) / 1000; if (cacheAge < UPDATE_INTERVAL)
isFresh(mtime, now) == mtime # NoTime /\ now - mtime < UPDATE_INTERVAL

\* getGitHubTreePaths: the cached paths while they are fresh, else the tree
\* of the SHA (revision r), which is cached with a new mtime; a failed fetch
\* throws and leaves the cache as it is.
treePathsResult(item, now, ok, l, r) ==
  IF isFresh(item.mtime, now) /\ item.has THEN LetterOk(item.value)
  ELSE IF ok THEN LetterOk(LetterTree(l, r))
  ELSE LetterFailed

treePathsCache(item, now, ok, l, r) ==
  IF isFresh(item.mtime, now) /\ item.has THEN item
  ELSE IF ok THEN Item(LetterTree(l, r), now)
  ELSE item

\* Manifest file contents at upstream revision r (the raw URL names the
\* branch, so the content may change); manifests are never empty.
ManifestPaths == {<<"m", "Microsoft", "VSCode", "1.0", "Microsoft.VSCode.yaml">>,
                  <<"g", "Git", "Git", "1.0", "Git.Git.yaml">>}
ContentNames == <<"yaml-1", "yaml-2", "yaml-3", "yaml-4">>
ManifestAt(p, r) == IF p[1] = "m" THEN ContentNames[r] ELSE ContentNames[1]

NoContent == [has |-> FALSE, content |-> ""]

\* Variant that never trusts the files cache.
cachedManifestNever(item) == FALSE

\* const cached = await storage.getItem(cacheKey); if (cached && typeof cached === "string")
cachedManifest(item) == item.has /\ item.content # ""

\* ---------------------------------------------------------- manifestSearch
\* Strings are sequences of characters.
UpperChars == <<"A", "B", "C", "M", "S", "V">>
LowerChars == <<"a", "b", "c", "m", "s", "v">>

\* Variant of the case conversion that leaves the string as it is.
toLowerCaseIdentity(s) == s

toLowerCaseChar(c) ==
  IF \E i \in 1..Len(UpperChars) : UpperChars[i] = c
  THEN LowerChars[CHOOSE i \in 1..Len(UpperChars) : UpperChars[i] = c]
  ELSE c

\* String.prototype.toLowerCase
toLowerCase(s) == [i \in 1..Len(s) |-> toLowerCaseChar(s[i])]

\* String.prototype.startsWith
startsWith(t, k) == Len(k) <= Len(t) /\ SubSeq(t, 1, Len(k)) = k

\* String.prototype.includes
includes(t, k) ==
  Len(k) <= Len(t) /\ \E i \in 0..(Len(t) - Len(k)) : SubSeq(t, i + 1, i + Len(k)) = k

isWhitespace(c) == c \in {" ", "\t"}

\* String.prototype.split(/\s+/): a run of whitespace ends the current word
\* (an empty one at the start of the string), the end of the string ends
\* the last word (an empty one after trailing whitespace).
RECURSIVE splitFrom(_, _, _, _, _)
splitFrom(s, i, words, word, inRun) ==
  IF i > Len(s) THEN Append(words, word)
  ELSE IF isWhitespace(s[i])
  THEN IF inRun THEN splitFrom(s, i + 1, words, word, TRUE)
       ELSE splitFrom(s, i + 1, Append(words, word), <<>>, TRUE)
  ELSE splitFrom(s, i + 1, words, Append(word, s[i]), FALSE)

splitWhitespace(s) == splitFrom(s, 1, <<>>, <<>>, FALSE)

\* for (const char of text) { if (keywordIndex < keyword.length && char ===
\* keyword[keywordIndex]) keywordIndex++ }
RECURSIVE fuzzyLoop(_, _, _, _)
fuzzyLoop(text, keyword, i, keywordIndex) ==
  IF i > Len(text) THEN keywordIndex
  ELSE fuzzyLoop(text, keyword, i + 1,
                 IF keywordIndex < Len(keyword) /\ text[i] = keyword[keywordIndex + 1]
                 THEN keywordIndex + 1 ELSE keywordIndex)

\* Variant of the fuzzy test that wants the keyword as one contiguous piece.
fuzzyContiguous(text, keyword) == includes(text, keyword)

\* return keywordIndex === normalizedKeyword.length
fuzzy(text, keyword) == fuzzyLoop(text, keyword, 1, 0) = Len(keyword)

\* words.some((word) => ...)
someWordFuzzy(words, keyword) == \E i \in 1..Len(words) : fuzzy(words[i], keyword)

\* new RegExp(`^${wildcardPattern}$`, "i").test(text) for a pattern of
\* literal characters, "." (any character) and ".*" (from "*").
RECURSIVE wildcardFrom(_, _, _, _)
wildcardFrom(pattern, text, i, j) ==
  IF i > Len(pattern) THEN j > Len(text)
  ELSE IF pattern[i] = "*"
  THEN wildcardFrom(pattern, text, i + 1, j)
         \/ (j <= Len(text) /\ wildcardFrom(pattern, text, i, j + 1))
  ELSE /\ j <= Len(text)
       /\ pattern[i] = "." \/ toLowerCaseChar(text[j]) = toLowerCaseChar(pattern[i])
       /\ wildcardFrom(pattern, text, i + 1, j + 1)

MatchTypes == {"Exact", "CaseInsensitive", "StartsWith", "Substring", "Wildcard",
               "Fuzzy", "FuzzySubstring"}

\* switch (matchType) on the lower-cased text and keyword
matchNormalized(text, normalizedText, normalizedKeyword, matchType) ==
  IF matchType = "Exact" THEN normalizedText = normalizedKeyword
  ELSE IF matchType \in {"CaseInsensitive", "Substring"}
  THEN includes(normalizedText, normalizedKeyword)
  ELSE IF matchType = "StartsWith" THEN startsWith(normalizedText, normalizedKeyword)
  ELSE IF matchType = "Wildcard" THEN wildcardFrom(normalizedKeyword, text, 1, 1)
  ELSE IF matchType = "Fuzzy" THEN fuzzy(normalizedText, normalizedKeyword)
  ELSE IF matchType = "FuzzySubstring"
  THEN someWordFuzzy(splitWhitespace(normalizedText), normalizedKeyword)
  ELSE FALSE

matchText(text, keyword, matchType) ==
  IF keyword = <<>> THEN TRUE
  ELSE matchNormalized(text, toLowerCase(text), toLowerCase(keyword), matchType)

\* Query.MatchType || "CaseInsensitive"
matchTypeOrDefault(matchType) == IF matchType = "" THEN "CaseInsensitive" ELSE matchType

\* if (Query && Query.KeyWord) { queryMatch = matchText(packageId, KeyWord, ...) }:
\* the package is kept unless the query has a keyword that does not match.
queryKeeps(packageId, keyword, matchType) ==
  IF keyword # <<>> THEN matchText(packageId, keyword, matchTypeOrDefault(matchType))
  ELSE TRUE

\* Package identifiers and keywords of the search requests.
T_VSCode == <<"M", "i", "c", "r", "o", "s", "o", "f", "t", ".", "V", "i", "s", "u", "a",
              "l", "S", "t", "u", "d", "i", "o", "C", "o", "d", "e">>
K_vscode == <<"v", "s", "c", "o", "d", "e">>
SearchTexts ==
  {T_VSCode, <<"A", "b", "C">>, <<"a", "b", "c">>, <<"a", "b">>, <<"b", "a">>,
   <<"a", "c", " ", "b">>, <<"a", " ", " ", "B", "c">>, <<" ", "a", "b", "\t">>,
   <<"c", "A", "b">>, <<>>}
SearchKeywords ==
  {K_vscode, <<>>, <<"a", "b">>, <<"A", "B">>, <<"a", "B", "c">>, <<"a", "c">>,
   <<"b", "c">>, <<"a", "*">>, <<"M", "S">>, <<"c", "o", "d", "e">>}

\* Version strings of one package of the index, as sequences of characters.
Ver_1_9_0 == <<"1", ".", "9", ".", "0">>
Ver_1_10_0 == <<"1", ".", "1", "0", ".", "0">>
Ver_1_2_0 == <<"1", ".", "2", ".", "0">>
MajorDigits == <<<<"2">>, <<"3">>, <<"4">>, <<"5">>, <<"6">>, <<"7">>, <<"8">>, <<"9">>,
                 <<"1", "0">>, <<"1", "1">>, <<"1", "2">>>>
MajorVersions(n) == {MajorDigits[i] \o <<".", "0">> : i \in 1..n}
VersionSets == {{Ver_1_2_0}, {Ver_1_9_0, Ver_1_2_0}, {Ver_1_9_0, Ver_1_10_0},
                MajorVersions(8), MajorVersions(10), MajorVersions(11)}

\* UTF-16 code units of the characters of a version string, in order.
CodeUnitOrder == <<".", "0", "1", "2", "3", "4", "5", "6", "7", "8", "9">>
codeUnit(c) == CHOOSE i \in 1..Len(CodeUnitOrder) : CodeUnitOrder[i] = c

\* Array.prototype.sort() without a comparator: strings compared by code
\* units, a proper prefix first.
RECURSIVE stringLess(_, _, _)
stringLess(a, b, i) ==
  IF i > Len(a) THEN i <= Len(b)
  ELSE IF i > Len(b) THEN FALSE
  ELSE IF a[i] # b[i] THEN codeUnit(a[i]) < codeUnit(b[i])
  ELSE stringLess(a, b, i + 1)

\* Array.from(versions).sort()
RECURSIVE sortDefault(_)
sortDefault(set) ==
  IF set = {} THEN <<>>
  ELSE LET least == CHOOSE a \in set : \A b \in set \ {a} : stringLess(a, b, 1)
       IN <<least>> \o sortDefault(set \ {least})

\* .reverse()
reverse(seq) == [i \in 1..Len(seq) |-> seq[Len(seq) + 1 - i]]

\* .slice(0, n)
sliceTo(seq, n) == SubSeq(seq, 1, IF Len(seq) < n THEN Len(seq) ELSE n)

\* Versions: Array.from(versions).sort().reverse().slice(0, 10)
resultVersions(versions) == sliceTo(reverse(sortDefault(versions)), 10)

\* ---------------------------------------------------------- package list
\* pageSize = 100
pageSize == 100

\* Package identifiers are named by their rank under localeCompare; the
\* index (a Map) yields its entries in insertion order.
PackageCounts == {0, 1, 2, 50, 99, 100, 101, 150, 199, 200, 201, 250}
indexOf(n) == [i \in 1..n |-> n + 1 - i]

\* .sort((a, b) => a.PackageIdentifier.localeCompare(b.PackageIdentifier))
\* (the ranks 1..pageSize * 3 in order, those of the entries kept)
sortPackages(entries) ==
  SelectSeq([i \in 1..(pageSize * 3) |-> i],
            LAMBDA x : \E i \in 1..Len(entries) : entries[i] = x)

\* The base64 alphabet; bytes are numbers 0..255.
Base64Chars ==
  <<"A", "B", "C", "D", "E", "F", "G", "H", "I", "J", "K", "L", "M", "N", "O", "P",
    "Q", "R", "S", "T", "U", "V", "W", "X", "Y", "Z", "a", "b", "c", "d", "e", "f",
    "g", "h", "i", "j", "k", "l", "m", "n", "o", "p", "q", "r", "s", "t", "u", "v",
    "w", "x", "y", "z", "0", "1", "2", "3", "4", "5", "6", "7", "8", "9", "+", "/">>
sextetChar(v) == Base64Chars[v + 1]
sextetOf(c) == (CHOOSE i \in 1..64 : Base64Chars[i] = c) - 1

\* Buffer.prototype.toString("base64")
RECURSIVE base64Encode(_)
base64Encode(bytes) ==
  IF Len(bytes) = 0 THEN <<>>
  ELSE IF Len(bytes) = 1
  THEN <<sextetChar(bytes[1] \div 4), sextetChar((bytes[1] % 4) * 16), "=", "=">>
  ELSE IF Len(bytes) = 2
  THEN <<sextetChar(bytes[1] \div 4),
         sextetChar((bytes[1] % 4) * 16 + bytes[2] \div 16),
         sextetChar((bytes[2] % 16) * 4), "=">>
  ELSE <<sextetChar(bytes[1] \div 4),
         sextetChar((bytes[1] % 4) * 16 + bytes[2] \div 16),
         sextetChar((bytes[2] % 16) * 4 + bytes[3] \div 64),
         sextetChar(bytes[3] % 64)>> \o base64Encode(SubSeq(bytes, 4, Len(bytes)))

\* Buffer.from(token, "base64") for a token of alphabet characters and
\* padding: decoding stops at the padding and never throws.
RECURSIVE base64Sextets(_, _)
base64Sextets(token, i) ==
  IF i > Len(token) \/ token[i] = "=" THEN <<>>
  ELSE <<sextetOf(token[i])>> \o base64Sextets(token, i + 1)

RECURSIVE sextetBytes(_)
sextetBytes(v) ==
  IF Len(v) < 2 THEN <<>>
  ELSE IF Len(v) = 2 THEN <<v[1] * 4 + v[2] \div 16>>
  ELSE IF Len(v) = 3 THEN <<v[1] * 4 + v[2] \div 16, (v[2] % 16) * 16 + v[3] \div 4>>
  ELSE <<v[1] * 4 + v[2] \div 16, (v[2] % 16) * 16 + v[3] \div 4, (v[3] % 4) * 64 + v[4]>>
         \o sextetBytes(SubSeq(v, 5, Len(v)))

base64Decode(token) == sextetBytes(base64Sextets(token, 1))

\* JavaScript numbers of the handler: an integer or NaN.
NaN == [nan |-> TRUE, n |-> 0]
Num(n) == [nan |-> FALSE, n |-> n]

isDigitByte(b) == 48 <= b /\ b <= 57

\* the number written by the leading digits of bytes[i..], acc so far
RECURSIVE digitsValue(_, _, _)
digitsValue(bytes, i, acc) ==
  IF i > Len(bytes) \/ ~isDigitByte(bytes[i]) THEN acc
  ELSE digitsValue(bytes, i + 1, 10 * acc + (bytes[i] - 48))

\* parseInt(text, 10) on the bytes of an ASCII text: leading white space,
\* an optional sign, then digits; NaN when no digit follows.
RECURSIVE parseIntFrom(_, _)
parseIntFrom(bytes, i) ==
  IF i > Len(bytes) THEN NaN
  ELSE IF bytes[i] \in {9, 10, 13, 32} THEN parseIntFrom(bytes, i + 1)
  ELSE IF bytes[i] \in {43, 45}
  THEN IF i < Len(bytes) /\ isDigitByte(bytes[i + 1])
       THEN Num((IF bytes[i] = 45 THEN -1 ELSE 1) * digitsValue(bytes, i + 1, 0))
       ELSE NaN
  ELSE IF isDigitByte(bytes[i]) THEN Num(digitsValue(bytes, i, 0))
  ELSE NaN

parseInt(bytes) == parseIntFrom(bytes, 1)

\* Number.prototype.toString() as bytes
RECURSIVE natToBytes(_)
natToBytes(n) ==
  IF n < 10 THEN <<48 + n>> ELSE Append(natToBytes(n \div 10), 48 + (n % 10))
numberToBytes(n) == IF n < 0 THEN <<45>> \o natToBytes(-n) ELSE natToBytes(n)

\* Variant of the end index that lies one past the page.
plusSkipping(x, n) == IF x.nan THEN NaN ELSE Num(x.n + n + 1)

\* startIndex + pageSize
plus(x, n) == IF x.nan THEN NaN ELSE Num(x.n + n)

\* endIndex < packages.length
lessThan(x, n) == ~x.nan /\ x.n < n

\* Array.prototype.slice(start, end): NaN counts as 0, a negative index
\* counts from the end.
relativeIndex(x, len) ==
  IF x.nan THEN 0
  ELSE IF x.n < 0 THEN (IF len + x.n < 0 THEN 0 ELSE len + x.n)
  ELSE IF x.n > len THEN len ELSE x.n

slice(seq, start, end) ==
  SubSeq(seq, relativeIndex(start, Len(seq)) + 1, relativeIndex(end, Len(seq)))

\* if (continuationToken) { try { startIndex = parseInt(Buffer.from(
\* continuationToken, "base64").toString(), 10) } catch { startIndex = 0 } }
startIndexOf(token) == IF token # <<>> THEN parseInt(base64Decode(token)) ELSE Num(0)

\* The packages handler: the page and its continuation token (empty: none).
packagesPage(entries, token) ==
  LET packages == sortPackages(entries)
      endIndex == plus(startIndexOf(token), pageSize)
  IN [Data |-> slice(packages, startIndexOf(token), endIndex),
      ContinuationToken |->
        IF lessThan(endIndex, Len(packages))
        THEN base64Encode(numberToBytes(endIndex.n)) ELSE <<>>]

\* Tokens of a first request: none, MTAw (100), MTUw (150), MTAwMA== (1000),
\* YWJj (abc), abcd (three non-ASCII bytes), MTJh (12a), LTU= (-5).
FirstTokens ==
  {<<>>, <<"M", "T", "A", "w">>, <<"M", "T", "U", "w">>,
   <<"M", "T", "A", "w", "M", "A", "=", "=">>, <<"Y", "W", "J", "j">>,
   <<"a", "b", "c", "d">>, <<"M", "T", "J", "h">>, <<"L", "T", "U", "=">>}

\* ------------------------------------------------------ tarball extraction
\* Entry names are strings (sequences of characters).
PaxHeader == <<"p", "a", "x", "_", "g", "l", "o", "b", "a", "l", "_", "h", "e", "a", "d",
               "e", "r">>
TarFile(n) == [name |-> n, type |-> "file"]

\* Entries an archive is made of: the pax header, files under the root r
\* (r/a, r/d/b), a file under another directory (q/a) and a file without a
\* directory (a).
TarEntries ==
  {[name |-> PaxHeader, type |-> "header"], TarFile(<<"r", "/", "a">>),
   TarFile(<<"r", "/", "d", "/", "b">>), TarFile(<<"q", "/", "a">>), TarFile(<<"a">>)}
MaxEntries == 3
Archives == UNION {[1..n -> TarEntries] : n \in 0..MaxEntries}

hasSlash(name) == \E i \in 1..Len(name) : name[i] = "/"

\* name.split("/")[0]
firstSegment(name) ==
  IF hasSlash(name)
  THEN SubSeq(name, 1, (CHOOSE i \in 1..Len(name) :
                          name[i] = "/" /\ \A j \in 1..(i - 1) : name[j] # "/") - 1)
  ELSE name

\* name.slice(n)
sliceFrom(name, n) == SubSeq(name, n + 1, Len(name))

\* truthy || fallback
orElse(s, fallback) == IF s = <<>> THEN fallback ELSE s

\* npm, JSR: const firstFile = files[0];
\* rootDir = firstFile?.name.split("/")[0] || "package"
npmRootDir(files) ==
  IF Len(files) = 0 THEN <<"p", "a", "c", "k", "a", "g", "e">>
  ELSE orElse(firstSegment(files[1].name), <<"p", "a", "c", "k", "a", "g", "e">>)

\* GitHub: [...filesMap.keys()].find((path) => path.includes("/") &&
\* !path.startsWith("pax_global_header")); rootDir = ...?.split("/")[0] || `${repo}-`
isContentPath(name) == hasSlash(name) /\ ~startsWith(name, PaxHeader)
ghRootDir(files) ==
  IF \E i \in 1..Len(files) : isContentPath(files[i].name)
  THEN orElse(firstSegment(files[CHOOSE i \in 1..Len(files) :
                                   /\ isContentPath(files[i].name)
                                   /\ \A j \in 1..(i - 1) : ~isContentPath(files[j].name)].name),
              <<"r", "e", "p", "o", "-">>)
  ELSE <<"r", "e", "p", "o", "-">>

rootDirOf(e, files) == IF e = "gh" THEN ghRootDir(files) ELSE npmRootDir(files)

\* npm: files.filter((f) => f.type === "file" && f.data); GitHub: every
\* entry of filesMap
isCachedEntry(e, f) == e = "gh" \/ f.type = "file"

\* fileList and cache keys: name: f.name.slice(rootPath.length), with
\* rootPath = `${rootDir}/`; from is the entry the name was cut from.
extractNames(e, files) ==
  [i \in 1..Len(files) |->
     [from |-> files[i].name,
      cached |-> isCachedEntry(e, files[i]),
      name |-> sliceFrom(files[i].name, Len(rootDirOf(e, files)) + 1)]]

\* -------------------------------------------------------- WordPress plugins
\* Paths, URLs and cache keys are sequences of segments (joined by "/").
\* Request paths below /cdn/wp/.
WpPaths ==
  {<<"plugins", "p", "trunk", "a.js">>, <<"plugins", "p", "trunk", "b.js">>,
   <<"plugins", "p", "trunk", "d", "a.js">>, <<"plugins", "p", "tags", "1.0", "a.js">>,
   <<"plugins", "p", "tags", "1.0">>, <<"plugins", "p", "other", "a.js">>}

NoMatch == [ok |-> FALSE, pluginName |-> "", ref |-> "", version |-> "", filepath |-> <<>>]

\* path.match(/^plugins\/([^/]+)\/(tags|trunk)(?:\/([^/]+))?(?:\/(.*))?$/) on
\* non-empty segments: the segment after the ref is the version group, the
\* rest is the filepath group (an undefined group is empty here).
pluginMatch(path) ==
  IF Len(path) >= 3 /\ path[1] = "plugins" /\ path[3] \in {"tags", "trunk"}
  THEN [ok |-> TRUE, pluginName |-> path[2], ref |-> path[3],
        version |-> IF Len(path) >= 4 THEN path[4] ELSE "",
        filepath |-> SubSeq(path, 5, Len(path))]
  ELSE NoMatch

\* svnUrl below https://plugins.svn.wordpress.org/ (jsDelivrUrl names the
\* same path) and cacheKey; `${filepath || ""}` of an undefined filepath
\* adds nothing.
wpTarget(m) ==
  IF m.ref = "trunk"
  THEN [status |-> 0, url |-> <<m.pluginName, "trunk">> \o m.filepath,
        key |-> <<"cdn", "wp", "plugins", m.pluginName, "trunk">> \o m.filepath]
  ELSE IF m.version = "" \/ m.filepath = <<>>
  THEN [status |-> 400, url |-> <<>>, key |-> <<>>]
  ELSE [status |-> 0, url |-> <<m.pluginName, "tags", m.version>> \o m.filepath,
        key |-> <<"cdn", "wp", "plugins", m.pluginName, "tags", m.version>> \o m.filepath]

wpTargetOf(path) ==
  IF pluginMatch(path).ok THEN wpTarget(pluginMatch(path))
  ELSE [status |-> 400, url |-> <<>>, key |-> <<>>]

WpKeys == {wpTargetOf(p).key : p \in WpPaths} \ {<<>>}

\* The bytes upstream serves for a URL at a revision: tags do not change.
NoBytes == [url |-> <<>>, rev |-> 0]
wpUpstream(url, r) == [url |-> url, rev |-> IF url[2] = "trunk" THEN r ELSE 1]

\* -------------------------------------------------------------------- state
VARIABLES
  eco,          \* "npm" | "gh" (cache); also "jsr" | "cdnjs" (resolution)
  variant,      \* "bg": file pull + detached warmup; "ensure": hydrate first
  version,      \* the resolved version of the PackageKey
  rev,          \* current upstream revision of the ref
  raw,          \* storage: relative path -> bytes (Absent = no key)
  meta,         \* storage: meta of cacheBase ({files: [...]})
  fault,        \* worst storage failure so far: "none" | "read" | "write"
  nreq,         \* requests started
  pc,           \* handler position of each task
  kind,         \* "file" | "list" | "esm"
  path,         \* requested relative path of a file request
  isCached,     \* the handler's isCached
  body,         \* fileData the handler holds
  resp,         \* the response sent
  dl,           \* tarball downloads caused by the request
  wpc,          \* position of the task's cache*InBackground call
  tar,          \* revision of the tarball the hydration downloaded
  fileList,     \* the hydration's local fileList
  fpc,          \* per file: position of its cache promise / loop turn
  early,        \* the warmup returned at "already cached"
  firstHit,     \* bytes of the first cache hit per path
  published,    \* upstream metadata: the version strings, in upstream order
  distTag,      \* upstream metadata: dist-tags.latest / apiData.version
  apiOk,        \* the metadata fetch answers 2xx
  apiFailure,   \* else how it fails: "4xx" | "5xx" | "network"; "none" if ok
  hasFilename,  \* cdnjs: apiData.filename is set
  hasReadme,    \* GitHub: the tarball holds README.md
  hasIndex,     \* GitHub: the tarball holds index.js
  specifier,    \* the @<spec> of the request path, NoVersion when absent
  atRoot,       \* the request path has no file part
  hasTrailingSlash, \* the raw request URL ends with "/"
  rpc,          \* "idle" | "start" | "resolved" | "again"
  res,          \* the handler's outcome for the request
  entry,        \* GitHub root without slash: the entry file answered
  res2,         \* the outcome for the same request with res.version as specifier
  wgNow,        \* WinGet: the clock
  wgUp,         \* WinGet: upstream revision of the manifest repository
  wgIndex,      \* storage: the index item and its mtime meta
  wgManifests,  \* storage: the manifests-sha item and its mtime meta
  wgLetters,    \* storage: per letter, the cached tree paths and their mtime
  wgFiles,      \* storage: files/<path>, the cached manifest contents
  mfFirst,      \* per path: content of the first successful fetchManifestContent
  mfCall,       \* the last fetchManifestContent call and its outcome
  mfCalls,      \* fetchManifestContent calls made
  wgN,          \* buildPackageIndex calls started
  wgPc,         \* position of each buildPackageIndex call
  wgEvent,      \* the caller passed its event
  wgAge,        \* cacheAge the call computed (NoTime: no mtime meta)
  wgMtime,      \* meta.mtime the call read (NoTime: no mtime meta)
  wgRb,         \* position of the call's rebuildPackageIndex run
  wgSha,        \* revision of the letter SHAs the rebuild holds
  wgGot,        \* letterResults of the rebuild
  wgBuilt,      \* the index the rebuild built
  wgResp,       \* what buildPackageIndex returned to the handler
  msText,       \* manifestSearch: the package identifier under test
  msKeyword,    \* Query.KeyWord (empty: none)
  msType,       \* Query.MatchType ("": none)
  msPc,         \* "idle" | "start" | "done"
  msHit,        \* the package is pushed to the results
  msVersions,   \* the version strings of the package in the index
  msOut,        \* Versions of the package's result (empty: not pushed)
  pkIndex,      \* package list: the index entries in insertion order
  pkToken,      \* ContinuationToken of the request (empty: none)
  pkFirst,      \* the token of the first request
  pkPc,         \* "idle" | "request" | "page" | "end"
  pkPage,       \* the last response
  pkSeen,       \* Data of all responses so far, concatenated
  pkPages,      \* responses so far
  txArchive,    \* extraction: the entries of the archive, in order
  txPc,         \* "idle" | "start" | "done"
  txRoot,       \* rootDir
  txNames,      \* per entry: the relative path cut from its name
  wpCache,      \* WordPress: storage, cache key -> bytes (NoBytes: no key)
  wpRev,        \* upstream revision of the plugin's trunk
  wpPending,    \* setItemRaw calls that were not awaited and have not landed
  wpResp,       \* the last response
  wpFlip        \* flips with every request

storeVars == <<raw, meta, fault>>
upVars == <<published, distTag, apiOk, apiFailure, hasFilename, hasReadme, hasIndex>>
urlVars == <<specifier, atRoot, hasTrailingSlash>>
resVars == <<rpc, res, entry, res2>>
cdnVars == <<eco, variant, version, upVars, urlVars, resVars>>
wgStore == <<wgIndex, wgManifests, wgLetters>>
mfVars == <<mfFirst, mfCall, mfCalls>>
wgReqVars == <<wgN, wgPc, wgEvent, wgAge, wgMtime, wgRb, wgSha, wgGot, wgBuilt, wgResp>>
wgVars == <<wgNow, wgUp, wgStore, wgFiles, mfVars, wgReqVars>>
msVars == <<msText, msKeyword, msType, msPc, msHit, msVersions, msOut>>
pkVars == <<pkIndex, pkToken, pkFirst, pkPc, pkPage, pkSeen, pkPages>>
txVars == <<txArchive, txPc, txRoot, txNames>>
wpVars == <<wpCache, wpRev, wpPending, wpResp, wpFlip>>
auxVars == <<pkVars, txVars, wpVars>>
cfgVars == <<cdnVars, wgVars, msVars, auxVars>>
reqVars == <<pc, kind, path, isCached, body, resp, dl>>
warmVars == <<wpc, tar, fileList, fpc, early>>
cacheVars == <<rev, storeVars, nreq, reqVars, warmVars, firstHit>>
vars == <<eco, variant, version, rev, raw, meta, fault, nreq, pc, kind, path,
          isCached, body, resp, dl, wpc, tar, fileList, fpc, early, firstHit,
          published, distTag, apiOk, apiFailure, hasFilename, hasReadme, hasIndex,
          specifier, atRoot, hasTrailingSlash, rpc, res, entry, res2,
          wgNow, wgUp, wgIndex, wgManifests, wgLetters, wgFiles, mfFirst, mfCall,
          mfCalls, wgN, wgPc, wgEvent, wgAge, wgMtime, wgRb, wgSha, wgGot, wgBuilt, wgResp,
          msText, msKeyword, msType, msPc, msHit, msVersions, msOut,
          pkIndex, pkToken, pkFirst, pkPc, pkPage, pkSeen, pkPages,
          txArchive, txPc, txRoot, txNames,
          wpCache, wpRev, wpPending, wpResp, wpFlip>>

NoResp == [status |-> 0, body |-> Absent, files |-> <<>>, hit |-> FALSE]
Reply(s, b, l, h) == [status |-> s, body |-> b, files |-> l, hit |-> h]

Immutable == IsImmutableKey(eco, version)

KeyVersions(e) == IF e = "npm" THEN {V_1_2_3, V_1_2} ELSE {V_v1_2_3, V_main}

\* The cache before the first request.
CacheInit ==
  /\ rev = 1
  /\ raw = EmptyRaw
  /\ meta = NoMeta
  /\ fault = "none"
  /\ nreq = 0
  /\ pc = [t \in Tasks |-> "idle"]
  /\ kind = [t \in Tasks |-> "file"]
  /\ path = [t \in Tasks |-> P_a]
  /\ isCached = [t \in Tasks |-> FALSE]
  /\ body = [t \in Tasks |-> Absent]
  /\ resp = [t \in Tasks |-> NoResp]
  /\ dl = [t \in Tasks |-> 0]
  /\ wpc = [t \in Tasks |-> "none"]
  /\ tar = [t \in Tasks |-> 0]
  /\ fileList = [t \in Tasks |-> <<>>]
  /\ fpc = [t \in Tasks |-> [f \in Files |-> "none"]]
  /\ early = [t \in Tasks |-> FALSE]
  /\ firstHit = [f \in Files |-> Absent]

\* The metadata and the URL of a request whose version is already resolved.
ResolverIdle ==
  /\ published = <<version>>
  /\ distTag = NoVersion
  /\ apiOk = TRUE
  /\ apiFailure = "none"
  /\ hasFilename = FALSE
  /\ hasReadme = FALSE
  /\ hasIndex = FALSE
  /\ specifier = version
  /\ atRoot = FALSE
  /\ hasTrailingSlash = FALSE
  /\ rpc = "idle"
  /\ res = NoRes
  /\ entry = NoEntry
  /\ res2 = NoRes

NoSha == [has |-> FALSE, value |-> 0, mtime |-> NoTime]
ShaItem(r, time) == [has |-> TRUE, value |-> r, mtime |-> time]

NoWgResp == [status |-> 0, pkgs |-> {}, via |-> "none"]
WgReply(s, i, v) == [status |-> s, pkgs |-> i, via |-> v]

NoCall == [path |-> <<>>, status |-> "none", content |-> "", upstream |-> FALSE]

\* Empty WinGet storage.
WgCold ==
  /\ wgManifests = NoSha
  /\ wgLetters = [l \in Letters |-> NoItem]
  /\ wgIndex = NoItem

WgNoRequest ==
  /\ wgFiles = [p \in ManifestPaths |-> NoContent]
  /\ mfFirst = [p \in ManifestPaths |-> ""]
  /\ mfCall = NoCall
  /\ mfCalls = 0
  /\ wgN = 0
  /\ wgPc = [t \in Tasks |-> "idle"]
  /\ wgEvent = [t \in Tasks |-> FALSE]
  /\ wgAge = [t \in Tasks |-> NoTime]
  /\ wgMtime = [t \in Tasks |-> NoTime]
  /\ wgRb = [t \in Tasks |-> "none"]
  /\ wgSha = [t \in Tasks |-> 0]
  /\ wgGot = [t \in Tasks |-> [l \in Letters |-> Pending]]
  /\ wgBuilt = [t \in Tasks |-> {}]
  /\ wgResp = [t \in Tasks |-> NoWgResp]

\* No package list request.
NoPage == [Data |-> <<>>, ContinuationToken |-> <<>>]
PackagesIdle ==
  /\ pkIndex = <<>>
  /\ pkToken = <<>>
  /\ pkFirst = <<>>
  /\ pkPc = "idle"
  /\ pkPage = NoPage
  /\ pkSeen = <<>>
  /\ pkPages = 0

\* No extraction.
ExtractIdle ==
  /\ txArchive = <<>>
  /\ txPc = "idle"
  /\ txRoot = <<>>
  /\ txNames = <<>>

\* No WordPress request, an empty cache.
NoWpResp == [path |-> <<>>, status |-> 0, body |-> NoBytes, key |-> <<>>, url |-> <<>>]

WpIdle ==
  /\ wpCache = [k \in WpKeys |-> NoBytes]
  /\ wpRev = 1
  /\ wpPending = {}
  /\ wpResp = NoWpResp
  /\ wpFlip = FALSE

AuxIdle == PackagesIdle /\ ExtractIdle /\ WpIdle

\* No search request.
SearchIdle ==
  /\ msText = <<>>
  /\ msKeyword = <<>>
  /\ msType = ""
  /\ msPc = "idle"
  /\ msHit = FALSE
  /\ msVersions = {}
  /\ msOut = <<>>

WingetIdle ==
  /\ wgNow = 0
  /\ wgUp = 1
  /\ WgCold
  /\ WgNoRequest
  /\ SearchIdle
  /\ AuxIdle

Init ==
  /\ eco \in {"npm", "gh"}
  /\ variant \in {"bg", "ensure"}
  /\ version \in KeyVersions(eco)
  /\ CacheInit
  /\ ResolverIdle
  /\ WingetIdle


\* ------------------------------------------------------- request handlers
\* History: the bytes of the first cache hit of each path of a key that the
\* handlers treat as immutable.
RecordHit(h, p, d) == IF Immutable /\ h[p] = Absent THEN [h EXCEPT ![p] = d] ELSE h

Idle(t) == pc[t] \in {"idle", "done"} /\ wpc[t] \in {"none", "done"}

Kinds == IF eco = "npm" /\ variant = "bg" THEN {"file", "list", "esm"} ELSE {"file", "list"}

\* A request arrives: the path is parsed, the version is resolved.
StartRequest(t) ==
  /\ Idle(t)
  /\ nreq < MaxReq
  /\ nreq' = nreq + 1
  /\ \E k \in Kinds, p \in ReqPaths :
       /\ kind' = [kind EXCEPT ![t] = k]
       /\ path' = [path EXCEPT ![t] = IF k = "file" THEN p ELSE P_a]
  /\ pc' = [pc EXCEPT ![t] = IF variant = "bg" THEN "isCached" ELSE "ensure"]
  /\ isCached' = [isCached EXCEPT ![t] = FALSE]
  /\ body' = [body EXCEPT ![t] = Absent]
  /\ resp' = [resp EXCEPT ![t] = NoResp]
  /\ dl' = [dl EXCEPT ![t] = 0]
  /\ wpc' = [wpc EXCEPT ![t] = "none"]
  /\ tar' = [tar EXCEPT ![t] = 0]
  /\ fileList' = [fileList EXCEPT ![t] = <<>>]
  /\ fpc' = [fpc EXCEPT ![t] = [f \in Files |-> "none"]]
  /\ early' = [early EXCEPT ![t] = FALSE]
  /\ UNCHANGED <<cfgVars, rev, storeVars, firstHit>>

\* A storage call of kind k ("read" | "write") settles: fulfilled when ok,
\* rejected otherwise.
Storage(ok, k) ==
  fault' = IF ok THEN fault ELSE IF k = "write" \/ fault = "write" THEN "write" ELSE "read"

\* The handler throws: the request is answered with the error status.
Fail(t, s) ==
  /\ pc' = [pc EXCEPT ![t] = "done"]
  /\ resp' = [resp EXCEPT ![t] = Reply(s, Absent, <<>>, FALSE)]

\* const isCached = await isNpmPackageCached(...) / isGitHubCached(...)
CheckCached(t) ==
  /\ pc[t] = "isCached"
  /\ \/ /\ ~Immutable
        /\ isCached' = [isCached EXCEPT ![t] = FALSE]
        /\ pc' = [pc EXCEPT ![t] = IF kind[t] = "file" THEN "getRaw" ELSE "hydrate"]
        /\ UNCHANGED <<resp, fault>>
     \/ /\ Immutable
        /\ \E ok \in BOOLEAN :
             /\ Storage(ok, "read")
             /\ IF ok
                THEN /\ isCached' = [isCached EXCEPT ![t] = meta.present]
                     /\ pc' = [pc EXCEPT ![t] = IF kind[t] = "file" THEN "getRaw" ELSE "hydrate"]
                     /\ UNCHANGED resp
                ELSE /\ Fail(t, 500)
                     /\ UNCHANGED isCached
  /\ UNCHANGED <<cfgVars, rev, raw, meta, nreq, kind, path, body, dl, warmVars, firstHit>>

\* getOrCacheNpmFile / getOrCacheFile: const cached = await storage.getItemRaw(cacheKey)
GetRaw(t) ==
  /\ pc[t] = "getRaw"
  /\ \E ok \in BOOLEAN :
       /\ Storage(ok, "read")
       /\ IF ~ok
          THEN /\ Fail(t, 500)
               /\ UNCHANGED <<body, firstHit>>
          ELSE IF getItemRaw(raw, path[t]) # Absent
          THEN /\ body' = [body EXCEPT ![t] = getItemRaw(raw, path[t])]
               /\ pc' = [pc EXCEPT ![t] = "respondHit"]
               /\ firstHit' = RecordHit(firstHit, path[t], getItemRaw(raw, path[t]))
               /\ UNCHANGED resp
          ELSE /\ pc' = [pc EXCEPT ![t] = "download"]
               /\ UNCHANGED <<body, resp, firstHit>>
  /\ UNCHANGED <<cfgVars, rev, raw, meta, nreq, kind, path, isCached, dl, warmVars>>

\* getOrCacheNpmFile / getOrCacheFile on a miss: fetch the tarball, extract,
\* find the requested entry.  A missing entry is a 404, which the handler turns
\* into the directory listing when the package is cached.
Download(t) ==
  /\ pc[t] = "download"
  /\ \E ok \in BOOLEAN :
       IF ~ok
       THEN /\ Fail(t, 502)
            /\ UNCHANGED <<body, dl>>
       ELSE /\ dl' = [dl EXCEPT ![t] = @ + 1]
            /\ IF FindEntry(rev, path[t]) # Absent
               THEN /\ body' = [body EXCEPT ![t] = FindEntry(rev, path[t])]
                    /\ pc' = [pc EXCEPT ![t] = "respondMiss"]
                    /\ UNCHANGED resp
               ELSE IF isCached[t]
               THEN /\ pc' = [pc EXCEPT ![t] = "dirList"]
                    /\ UNCHANGED <<body, resp>>
               ELSE /\ Fail(t, 404)
                    /\ UNCHANGED body
  /\ UNCHANGED <<cfgVars, rev, storeVars, nreq, kind, path, isCached, warmVars, firstHit>>

\* Variant that awaits the warmup instead of detaching it: the response is
\* sent when cache*InBackground has returned.
RespondFileAwaitsWarmup(t) ==
  /\ pc[t] \in {"respondHit", "respondMiss"}
  /\ \/ /\ ~isCached[t]
        /\ wpc[t] = "none"
        /\ wpc' = [wpc EXCEPT ![t] = "check"]
        /\ UNCHANGED <<pc, resp>>
     \/ /\ isCached[t] \/ wpc[t] = "done"
        /\ resp' = [resp EXCEPT ![t] = Reply(200, body[t], <<>>, pc[t] = "respondHit")]
        /\ pc' = [pc EXCEPT ![t] = "done"]
        /\ UNCHANGED wpc
  /\ UNCHANGED <<cfgVars, rev, storeVars, nreq, kind, path, isCached, body, dl,
                 tar, fileList, fpc, early, firstHit>>

\* if (!isCached) event.waitUntil(cache*InBackground(...)); return Buffer.from(fileData)
RespondFile(t) ==
  /\ pc[t] \in {"respondHit", "respondMiss"}
  /\ resp' = [resp EXCEPT ![t] = Reply(200, body[t], <<>>, pc[t] = "respondHit")]
  /\ pc' = [pc EXCEPT ![t] = "done"]
  /\ wpc' = [wpc EXCEPT ![t] = IF isCached[t] THEN "none" ELSE "check"]
  /\ UNCHANGED <<cfgVars, rev, storeVars, nreq, kind, path, isCached, body, dl,
                 tar, fileList, fpc, early, firstHit>>

\* Directory fallback of a file request: the files of the manifest below
\* <filepath>/, 404 when there is none.
DirList(t) ==
  /\ pc[t] = "dirList"
  /\ \E ok \in BOOLEAN :
       /\ Storage(ok, "read")
       /\ IF ~ok THEN Fail(t, 500)
          ELSE IF DirContents(meta.files, path[t]) = <<>> THEN Fail(t, 404)
          ELSE /\ pc' = [pc EXCEPT ![t] = "done"]
               /\ resp' = [resp EXCEPT ![t] =
                    Reply(200, Absent, DirContents(meta.files, path[t]), FALSE)]
  /\ UNCHANGED <<cfgVars, rev, raw, meta, nreq, kind, path, isCached, body, dl, warmVars, firstHit>>

\* Root listing and +esm: if (!isCached) await cache*InBackground(...)
Hydrate(t) ==
  /\ pc[t] = "hydrate"
  /\ pc' = [pc EXCEPT ![t] = "serveList"]
  /\ wpc' = [wpc EXCEPT ![t] = IF isCached[t] THEN "none" ELSE "check"]
  /\ UNCHANGED <<cfgVars, rev, storeVars, nreq, kind, path, isCached, body, resp, dl,
                 tar, fileList, fpc, early, firstHit>>

\* const meta = await storage.getMeta(cacheBase); files: meta?.files || []
\* (+esm: bundleNpmPackage reads the cached files and its output is returned;
\* it throws a plain Error, answered 500, when the key has no manifest)
ServeList(t) ==
  /\ pc[t] = "serveList"
  /\ wpc[t] \in {"none", "done"}
  /\ \E ok \in BOOLEAN :
       /\ Storage(ok, "read")
       /\ IF ~ok \/ (kind[t] = "esm" /\ ~meta.present)
          THEN Fail(t, 500)
          ELSE /\ pc' = [pc EXCEPT ![t] = "done"]
               /\ resp' = [resp EXCEPT ![t] =
                    Reply(200, Absent, IF kind[t] = "list" THEN meta.files ELSE <<>>, FALSE)]
  /\ UNCHANGED <<cfgVars, rev, raw, meta, nreq, kind, path, isCached, body, dl, warmVars, firstHit>>


\* ------------------------------------------------------------------ warmup
\* cacheNpmPackageInBackground / cacheGitHubPackageInBackground: every error
\* is caught, the call never rejects.

\* const cachedMeta = await storage.getMeta(cacheBase); if (cachedMeta?.files) return
WarmCheck(t) ==
  /\ wpc[t] = "check"
  /\ \E ok \in BOOLEAN :
       /\ Storage(ok, "read")
       /\ IF ~ok
          THEN /\ wpc' = [wpc EXCEPT ![t] = "done"]
               /\ UNCHANGED early
          ELSE IF meta.present
          THEN /\ wpc' = [wpc EXCEPT ![t] = "done"]
               /\ early' = [early EXCEPT ![t] = TRUE]
          ELSE /\ wpc' = [wpc EXCEPT ![t] = "fetch"]
               /\ UNCHANGED early
  /\ UNCHANGED <<cfgVars, rev, raw, meta, nreq, reqVars, tar, fileList, fpc, firstHit>>

\* fetch(tarballUrl), extract, build fileList, start one cache promise per file
WarmFetch(t) ==
  /\ wpc[t] = "fetch"
  /\ \E ok \in BOOLEAN :
       IF ~ok
       THEN /\ wpc' = [wpc EXCEPT ![t] = "done"]
            /\ UNCHANGED <<dl, tar, fileList, fpc>>
       ELSE /\ wpc' = [wpc EXCEPT ![t] = "files"]
            /\ dl' = [dl EXCEPT ![t] = @ + 1]
            /\ tar' = [tar EXCEPT ![t] = rev]
            /\ fileList' = [fileList EXCEPT ![t] = BuildFileList(rev)]
            /\ fpc' = [fpc EXCEPT ![t] =
                 [f \in Files |-> IF Tarball(rev)[f] # Absent THEN "probe" ELSE "none"]]
  /\ UNCHANGED <<cfgVars, rev, storeVars, nreq, pc, kind, path, isCached, body, resp,
                 early, firstHit>>

\* const exists = await storage.getItemRaw(cacheKey); if (exists) return
WarmProbe(t, f) ==
  /\ wpc[t] = "files"
  /\ fpc[t][f] = "probe"
  /\ \E ok \in BOOLEAN :
       /\ Storage(ok, "read")
       /\ fpc' = [fpc EXCEPT ![t][f] = IF ok /\ getItemRaw(raw, f) = Absent THEN "put" ELSE "done"]
  /\ UNCHANGED <<cfgVars, rev, raw, meta, nreq, reqVars, wpc, tar, fileList, early, firstHit>>

\* await storage.setItemRaw(cacheKey, file.data); fileItem.integrity = integrity
WarmPut(t, f) ==
  /\ wpc[t] = "files"
  /\ fpc[t][f] = "put"
  /\ \E ok \in BOOLEAN :
       IF ok
       THEN /\ raw' = [raw EXCEPT ![f] = Tarball(tar[t])[f]]
            /\ fileList' = [fileList EXCEPT ![t] =
                 SetIntegrity(@, f, calculateIntegrity(Tarball(tar[t])[f]))]
            /\ fpc' = [fpc EXCEPT ![t][f] = "done"]
            /\ Storage(ok, "write")
       ELSE /\ Storage(ok, "write")
            /\ fpc' = [fpc EXCEPT ![t][f] = "failed"]
            /\ UNCHANGED <<raw, fileList>>
  /\ UNCHANGED <<cfgVars, rev, meta, nreq, reqVars, wpc, tar, early, firstHit>>

\* await Promise.allSettled(cachePromises); await storage.setMeta(cacheBase, {files})
WarmManifest(t) ==
  /\ wpc[t] = "files"
  /\ \A f \in Files : fpc[t][f] \in {"none", "done", "failed"}
  /\ wpc' = [wpc EXCEPT ![t] = "done"]
  /\ \E ok \in BOOLEAN :
       IF ok
       THEN /\ meta' = [present |-> TRUE, files |-> fileList[t]]
            /\ Storage(ok, "write")
       ELSE /\ Storage(ok, "write")
            /\ UNCHANGED meta
  /\ UNCHANGED <<cfgVars, rev, raw, nreq, reqVars, tar, fileList, fpc, early, firstHit>>


\* ------------------------------------------------- synchronous hydration
\* ensurePackageCached / ensureGitHubCached: awaited by the handler before it
\* serves; an error rejects the request.

\* mutable key: await storage.removeItem(cacheBase)
\* immutable key: if ((await storage.getMeta(cacheBase))?.files) return
EnsureCheck(t) ==
  /\ pc[t] = "ensure"
  /\ \E ok \in BOOLEAN :
       IF ~Immutable
       THEN IF ok
            THEN /\ raw' = removeItemRaw(raw)
                 /\ meta' = removeItemMeta(meta)
                 /\ pc' = [pc EXCEPT ![t] = "ensFetch"]
                 /\ Storage(ok, "write")
                 /\ UNCHANGED resp
            ELSE /\ Fail(t, 500)
                 /\ Storage(ok, "write")
                 /\ UNCHANGED <<raw, meta>>
       ELSE /\ IF ok
               THEN /\ pc' = [pc EXCEPT ![t] = IF meta.present THEN "serve" ELSE "ensFetch"]
                    /\ UNCHANGED resp
               ELSE Fail(t, 500)
            /\ Storage(ok, "read")
            /\ UNCHANGED <<raw, meta>>
  /\ UNCHANGED <<cfgVars, rev, nreq, kind, path, isCached, body, dl, warmVars, firstHit>>

\* fetch(tarballUrl), extract; fileList = []
EnsureFetch(t) ==
  /\ pc[t] = "ensFetch"
  /\ \E ok \in BOOLEAN :
       IF ~ok
       THEN /\ Fail(t, 502)
            /\ UNCHANGED <<dl, tar, fpc>>
       ELSE /\ pc' = [pc EXCEPT ![t] = "ensPut"]
            /\ dl' = [dl EXCEPT ![t] = @ + 1]
            /\ tar' = [tar EXCEPT ![t] = rev]
            /\ fpc' = [fpc EXCEPT ![t] =
                 [f \in Files |-> IF Tarball(rev)[f] # Absent THEN "todo" ELSE "none"]]
            /\ UNCHANGED resp
  /\ UNCHANGED <<cfgVars, rev, storeVars, nreq, kind, path, isCached, body, wpc, fileList,
                 early, firstHit>>

\* the next entry of: for (const file of files) { await setItemRaw; fileList.push }
NextTodo(t) ==
  LET todo == {i \in 1..Len(FileOrder) : fpc[t][FileOrder[i]] = "todo"}
  IN IF todo = {} THEN 0 ELSE CHOOSE i \in todo : \A j \in todo : i <= j

EnsurePut(t) ==
  /\ pc[t] = "ensPut"
  /\ NextTodo(t) # 0
  /\ LET f == FileOrder[NextTodo(t)]
     IN \E ok \in BOOLEAN :
          IF ok
          THEN /\ raw' = [raw EXCEPT ![f] = Tarball(tar[t])[f]]
               /\ fileList' = [fileList EXCEPT ![t] = Append(@, NewEntry(f, Tarball(tar[t])[f]))]
               /\ fpc' = [fpc EXCEPT ![t][f] = "done"]
               /\ Storage(ok, "write")
               /\ UNCHANGED <<pc, resp>>
          ELSE /\ Fail(t, 500)
               /\ Storage(ok, "write")
               /\ UNCHANGED <<raw, fileList, fpc>>
  /\ UNCHANGED <<cfgVars, rev, meta, nreq, kind, path, isCached, body, dl, wpc, tar,
                 early, firstHit>>

\* await storage.setMeta(cacheBase, { files: fileList })
EnsureManifest(t) ==
  /\ pc[t] = "ensPut"
  /\ NextTodo(t) = 0
  /\ \E ok \in BOOLEAN :
       IF ok
       THEN /\ meta' = [present |-> TRUE, files |-> fileList[t]]
            /\ pc' = [pc EXCEPT ![t] = "serve"]
            /\ Storage(ok, "write")
            /\ UNCHANGED resp
       ELSE /\ Fail(t, 500)
            /\ Storage(ok, "write")
            /\ UNCHANGED meta
  /\ UNCHANGED <<cfgVars, rev, raw, nreq, kind, path, isCached, body, dl, warmVars, firstHit>>

\* After the hydration: the root listing from the manifest, or getCachedFile
\* and, when the raw key is missing, the directory listing.
Serve(t) ==
  /\ pc[t] = "serve"
  /\ \E ok \in BOOLEAN :
       /\ Storage(ok, "read")
       /\ IF ~ok
          THEN /\ Fail(t, 500)
               /\ UNCHANGED <<body, firstHit>>
          ELSE IF kind[t] = "list"
          THEN /\ pc' = [pc EXCEPT ![t] = "done"]
               /\ resp' = [resp EXCEPT ![t] = Reply(200, Absent, meta.files, FALSE)]
               /\ UNCHANGED <<body, firstHit>>
          ELSE IF getItemRaw(raw, path[t]) # Absent
          THEN /\ pc' = [pc EXCEPT ![t] = "done"]
               /\ body' = [body EXCEPT ![t] = getItemRaw(raw, path[t])]
               /\ resp' = [resp EXCEPT ![t] = Reply(200, getItemRaw(raw, path[t]), <<>>, TRUE)]
               /\ firstHit' = RecordHit(firstHit, path[t], getItemRaw(raw, path[t]))
          ELSE /\ pc' = [pc EXCEPT ![t] = "dirList"]
               /\ UNCHANGED <<body, resp, firstHit>>
  /\ UNCHANGED <<cfgVars, rev, raw, meta, nreq, kind, path, isCached, dl, warmVars>>

\* ----------------------------------------------------------------- upstream
\* A push to the branch: the next tarball download sees the new revision.
Push ==
  /\ RefMoves(version)
  /\ rev < MaxRev
  /\ rev' = rev + 1
  /\ UNCHANGED <<cfgVars, storeVars, nreq, reqVars, warmVars, firstHit>>

Next ==
  \/ Push
  \/ \E t \in Tasks :
       \/ StartRequest(t)
       \/ CheckCached(t)
       \/ GetRaw(t)
       \/ Download(t)
       \/ RespondFile(t)
       \/ DirList(t)
       \/ Hydrate(t)
       \/ ServeList(t)
       \/ WarmCheck(t)
       \/ WarmFetch(t)
       \/ \E f \in Files : WarmProbe(t, f)
       \/ \E f \in Files : WarmPut(t, f)
       \/ WarmManifest(t)
       \/ EnsureCheck(t)
       \/ EnsureFetch(t)
       \/ EnsurePut(t)
       \/ EnsureManifest(t)
       \/ Serve(t)

Spec == Init /\ [][Next]_vars

\* What the server does for task t once its request has arrived: the
\* handler's steps and those of the hydration it started.
ServerStep(t) ==
  \/ CheckCached(t)
  \/ GetRaw(t)
  \/ Download(t)
  \/ RespondFile(t)
  \/ DirList(t)
  \/ Hydrate(t)
  \/ ServeList(t)
  \/ WarmCheck(t)
  \/ WarmFetch(t)
  \/ \E f \in Files : WarmProbe(t, f)
  \/ \E f \in Files : WarmPut(t, f)
  \/ WarmManifest(t)
  \/ EnsureCheck(t)
  \/ EnsureFetch(t)
  \/ EnsurePut(t)
  \/ EnsureManifest(t)
  \/ Serve(t)

\* Handlers and detached hydrations run to their end; clients may stop
\* sending requests at any time.
SpecFair == Spec /\ \A t \in Tasks : WF_vars(ServerStep(t))

\* ------------------------------------------------------ version resolution
Ecosystems == {"npm", "jsr", "gh", "cdnjs"}

\* The published version lists drawn per ecosystem.
PublishedLists(e) ==
  IF e \in {"npm", "jsr"}
  THEN {<<>>, <<V_1_2_3>>, <<V_1_2_3, V_1_3_0>>, <<V_1_3_0, V_2_0_0, V_1_2_3>>}
  ELSE IF e = "gh"
  THEN {<<>>, <<V_1_2_3>>, <<V_v1_2_3, V_1_3_0>>, <<V_1_3_0, V_2_0_0>>}
  ELSE {<<>>, <<V_1_2_3>>, <<V_1_2, V_1_2_3>>, <<V_1_3_0, V_1_2_3>>}

Elems(V) == {V[i] : i \in 1..Len(V)}

\* dist-tags.latest names a published version or is missing; jsDelivr's
\* version list carries no tag; cdnjs always reports its current version.
DistTags(e, V) ==
  IF e \in {"npm", "jsr"} THEN Elems(V) \cup {NoVersion}
  ELSE IF e = "gh" THEN {NoVersion}
  ELSE IF V = <<>> THEN {V_1_2_3} ELSE Elems(V)

Specifiers(e) ==
  {NoVersion, S_latest, S_1, S_9, V_1_2, V_1_2_3, V_1_3_0, S_caret}
    \cup (IF e = "gh" THEN {V_main, S_sha, V_v1_2_3} ELSE {})

InitResolver ==
  /\ eco \in Ecosystems
  /\ variant = "bg"
  /\ version = NoVersion
  /\ CacheInit
  /\ published \in PublishedLists(eco)
  /\ distTag \in DistTags(eco, published)
  /\ apiOk \in BOOLEAN
  /\ apiFailure \in (IF apiOk THEN {"none"} ELSE {"4xx", "5xx", "network"})
  /\ hasFilename \in (IF eco = "cdnjs" THEN BOOLEAN ELSE {FALSE})
  /\ hasReadme \in (IF eco = "gh" THEN BOOLEAN ELSE {FALSE})
  /\ hasIndex \in (IF eco = "gh" THEN BOOLEAN ELSE {FALSE})
  /\ specifier \in Specifiers(eco)
  /\ atRoot \in BOOLEAN
  /\ hasTrailingSlash \in BOOLEAN
  /\ rpc = "start"
  /\ res = NoRes
  /\ entry = NoEntry
  /\ res2 = NoRes
  /\ WingetIdle

\* A handler answers the request: version resolution, then the branch and
\* the Cache-Control header.  The PackageKey is that of the resolved version.
Answer ==
  /\ rpc = "start"
  /\ res' = fetchMetadata(apiFailure,
                           Handle(eco, published, distTag, apiOk, hasFilename,
                                  specifier, atRoot, hasTrailingSlash))
  /\ version' = res'.version
  /\ entry' = EntryOf(eco, res', hasReadme, hasIndex)
  /\ rpc' = "resolved"
  /\ UNCHANGED <<eco, variant, upVars, urlVars, res2, cacheVars, wgVars, msVars, auxVars>>

ResolveNpm ==
  /\ eco = "npm"
  /\ Answer

ResolveJsr ==
  /\ eco = "jsr"
  /\ Answer

ResolveGh ==
  /\ eco = "gh"
  /\ Answer

ResolveCdnjs ==
  /\ eco = "cdnjs"
  /\ Answer

\* A second request names the version the first one resolved to, against
\* the same upstream metadata.
ResolveAgain ==
  /\ rpc = "resolved"
  /\ res.status = 200
  /\ res2' = fetchMetadata(apiFailure,
                            Handle(eco, published, distTag, apiOk, hasFilename,
                                   res.version, atRoot, hasTrailingSlash))
  /\ rpc' = "again"
  /\ UNCHANGED <<eco, variant, version, upVars, urlVars, res, entry, cacheVars, wgVars, msVars, auxVars>>

NextResolver ==
  \/ ResolveNpm
  \/ ResolveJsr
  \/ ResolveGh
  \/ ResolveCdnjs
  \/ ResolveAgain

SpecResolver == InitResolver /\ [][NextResolver]_vars

\* ------------------------------------------------------------ WinGet index
\* buildPackageIndex and rebuildPackageIndex on the keys
\* registry/winget/<repo>/{index, manifests-sha, manifests-<letter>} and
\* fetchManifestContent on registry/winget/<repo>/files/<path>.

WgIdle(t) == wgPc[t] \in {"idle", "done"} /\ wgRb[t] \in {"none", "done", "failed"}

\* A handler calls buildPackageIndex, with or without its event.
WgRequest(t) ==
  /\ WgIdle(t)
  /\ wgN < MaxReq
  /\ wgN' = wgN + 1
  /\ \E e \in BOOLEAN : wgEvent' = [wgEvent EXCEPT ![t] = e]
  /\ wgPc' = [wgPc EXCEPT ![t] = "meta"]
  /\ wgAge' = [wgAge EXCEPT ![t] = NoTime]
  /\ wgMtime' = [wgMtime EXCEPT ![t] = NoTime]
  /\ wgRb' = [wgRb EXCEPT ![t] = "none"]
  /\ wgSha' = [wgSha EXCEPT ![t] = 0]
  /\ wgGot' = [wgGot EXCEPT ![t] = [l \in Letters |-> Pending]]
  /\ wgBuilt' = [wgBuilt EXCEPT ![t] = {}]
  /\ wgResp' = [wgResp EXCEPT ![t] = NoWgResp]
  /\ UNCHANGED <<wgNow, wgUp, wgStore, wgFiles, mfVars, cdnVars, cacheVars, msVars, auxVars>>

\* Variant that answers from whatever the index key holds instead of
\* rebuilding.
RebuildSkipped(t) ==
  /\ wgPc' = [wgPc EXCEPT ![t] = "done"]
  /\ wgResp' = [wgResp EXCEPT ![t] = WgReply(200, wgIndex.value, "cache")]
  /\ UNCHANGED wgRb

\* The synchronous rebuild: return await rebuildPackageIndex()
RebuildSync(t) ==
  /\ wgPc' = [wgPc EXCEPT ![t] = "rebuild"]
  /\ wgRb' = [wgRb EXCEPT ![t] = "shas"]
  /\ UNCHANGED wgResp

\* const meta = await storage.getMeta(cacheKey); const now = new Date()
GetMeta(t) ==
  /\ wgPc[t] = "meta"
  /\ wgMtime' = [wgMtime EXCEPT ![t] = wgIndex.mtime]
  /\ wgAge' = [wgAge EXCEPT ![t] =
       IF wgIndex.mtime = NoTime THEN NoTime ELSE wgNow - wgIndex.mtime]
  /\ IF isFresh(wgIndex.mtime, wgNow)
     THEN wgPc' = [wgPc EXCEPT ![t] = "fresh"] /\ UNCHANGED <<wgRb, wgResp>>
     ELSE IF wgIndex.mtime # NoTime /\ wgEvent[t]
     THEN wgPc' = [wgPc EXCEPT ![t] = "stale"] /\ UNCHANGED <<wgRb, wgResp>>
     ELSE RebuildSync(t)
  /\ UNCHANGED <<wgNow, wgUp, wgStore, wgFiles, mfVars, wgN, wgEvent, wgSha, wgGot,
                 wgBuilt, cdnVars, cacheVars, msVars, auxVars>>

\* Fresh branch: const cached = await storage.getItem(cacheKey); if (cached) return
GetFresh(t) ==
  /\ wgPc[t] = "fresh"
  /\ IF wgIndex.has
     THEN /\ wgPc' = [wgPc EXCEPT ![t] = "done"]
          /\ wgResp' = [wgResp EXCEPT ![t] = WgReply(200, wgIndex.value, "cache")]
          /\ UNCHANGED wgRb
     ELSE IF wgEvent[t]
     THEN wgPc' = [wgPc EXCEPT ![t] = "stale"] /\ UNCHANGED <<wgRb, wgResp>>
     ELSE RebuildSync(t)
  /\ UNCHANGED <<wgNow, wgUp, wgStore, wgFiles, mfVars, wgN, wgEvent, wgAge, wgMtime, wgSha,
                 wgGot, wgBuilt, cdnVars, cacheVars, msVars, auxVars>>

\* Stale branch (only with an event): the cached value is returned and the
\* rebuild is handed to event.waitUntil.
GetStale(t) ==
  /\ wgPc[t] = "stale"
  /\ IF wgIndex.has
     THEN /\ wgPc' = [wgPc EXCEPT ![t] = "done"]
          /\ wgResp' = [wgResp EXCEPT ![t] = WgReply(200, wgIndex.value, "cache")]
          /\ wgRb' = [wgRb EXCEPT ![t] = "shas"]
     ELSE RebuildSync(t)
  /\ UNCHANGED <<wgNow, wgUp, wgStore, wgFiles, mfVars, wgN, wgEvent, wgAge, wgMtime, wgSha,
                 wgGot, wgBuilt, cdnVars, cacheVars, msVars, auxVars>>

\* The rebuild of task t runs inside the request (awaited).
Awaited(t) == wgPc[t] = "rebuild"

\* Variant in which a failing rebuild always fails the request.
RebuildThrowsToClient(t) ==
  /\ wgRb' = [wgRb EXCEPT ![t] = "failed"]
  /\ wgPc' = [wgPc EXCEPT ![t] = "done"]
  /\ wgResp' = [wgResp EXCEPT ![t] = WgReply(500, {}, "none")]

\* The rebuild throws: an awaited one fails the request, a detached one is
\* caught and logged.
RebuildThrows(t) ==
  /\ wgRb' = [wgRb EXCEPT ![t] = "failed"]
  /\ IF Awaited(t)
     THEN /\ wgPc' = [wgPc EXCEPT ![t] = "done"]
          /\ wgResp' = [wgResp EXCEPT ![t] = WgReply(500, {}, "none")]
     ELSE UNCHANGED <<wgPc, wgResp>>

\* getLetterDirectoryShas: the manifests SHA (cached while fresh, else the
\* root tree is fetched and the SHA cached), then the tree of that SHA, whose
\* entries are the letter SHAs; a failed fetch throws.
LetterShas(t) ==
  /\ wgRb[t] = "shas"
  /\ \E okRoot, okTree \in BOOLEAN :
       LET hit == isFresh(wgManifests.mtime, wgNow) /\ wgManifests.has
           sha == IF hit THEN wgManifests.value ELSE wgUp
       IN /\ wgManifests' = IF hit \/ ~okRoot THEN wgManifests ELSE ShaItem(wgUp, wgNow)
          /\ IF (~hit /\ ~okRoot) \/ ~okTree
             THEN RebuildThrows(t) /\ UNCHANGED wgSha
             ELSE /\ wgSha' = [wgSha EXCEPT ![t] = sha]
                  /\ wgRb' = [wgRb EXCEPT ![t] = "letters"]
                  /\ UNCHANGED <<wgPc, wgResp>>
  /\ UNCHANGED <<wgNow, wgUp, wgIndex, wgLetters, wgFiles, mfVars, wgN, wgEvent, wgAge, wgMtime,
                 wgGot, wgBuilt, cdnVars, cacheVars, msVars, auxVars>>

\* One of the parallel letter promises: getGitHubTreePaths(sha, manifests/<l>)
\* inside try/catch.
TreePaths(t, l) ==
  /\ wgRb[t] = "letters"
  /\ wgGot[t][l] = Pending
  /\ \E ok \in BOOLEAN :
       /\ wgGot' = [wgGot EXCEPT ![t][l] =
            treePathsResult(wgLetters[l], wgNow, ok, l, wgSha[t])]
       /\ wgLetters' = [wgLetters EXCEPT ![l] =
            treePathsCache(wgLetters[l], wgNow, ok, l, wgSha[t])]
  /\ UNCHANGED <<wgNow, wgUp, wgIndex, wgManifests, wgFiles, mfVars, wgN, wgPc, wgEvent,
                 wgAge, wgMtime, wgRb, wgSha, wgBuilt, wgResp, cdnVars, cacheVars, msVars, auxVars>>

\* After Promise.allSettled: build the index and
\* await storage.setItem(cacheKey, cacheData)
PutIndex(t) ==
  /\ wgRb[t] = "letters"
  /\ \A l \in Letters : wgGot[t][l] # Pending
  /\ wgBuilt' = [wgBuilt EXCEPT ![t] = buildIndex(wgGot[t])]
  /\ wgIndex' = [wgIndex EXCEPT !.has = TRUE, !.value = buildIndex(wgGot[t])]
  /\ wgRb' = [wgRb EXCEPT ![t] = "mtime"]
  /\ UNCHANGED <<wgNow, wgUp, wgManifests, wgLetters, wgFiles, mfVars, wgN, wgPc, wgEvent,
                 wgAge, wgMtime, wgSha, wgGot, wgResp, cdnVars, cacheVars, msVars, auxVars>>

\* await storage.setMeta(cacheKey, { mtime: new Date() }); return index
PutMeta(t) ==
  /\ wgRb[t] = "mtime"
  /\ wgIndex' = [wgIndex EXCEPT !.mtime = wgNow]
  /\ wgRb' = [wgRb EXCEPT ![t] = "done"]
  /\ IF Awaited(t)
     THEN /\ wgPc' = [wgPc EXCEPT ![t] = "done"]
          /\ wgResp' = [wgResp EXCEPT ![t] = WgReply(200, wgBuilt[t], "rebuild")]
     ELSE UNCHANGED <<wgPc, wgResp>>
  /\ UNCHANGED <<wgNow, wgUp, wgManifests, wgLetters, wgFiles, mfVars, wgN, wgEvent,
                 wgAge, wgMtime, wgSha, wgGot, wgBuilt, cdnVars, cacheVars, msVars, auxVars>>

\* fetchManifestContent(p): the cached string, else the raw file of the
\* branch, stored under files/<p>; a failed fetch throws and stores nothing.
\* mfFirst keeps the content of the first successful call per path, mfCall
\* the last call.
FetchManifestContent(p) ==
  /\ mfCalls < MaxReq + 1
  /\ mfCalls' = mfCalls + 1
  /\ \E ok \in BOOLEAN :
       IF cachedManifest(wgFiles[p])
       THEN /\ mfCall' = [path |-> p, status |-> "ok", content |-> wgFiles[p].content,
                          upstream |-> FALSE]
            /\ UNCHANGED <<wgFiles, mfFirst>>
       ELSE IF ok
       THEN /\ mfCall' = [path |-> p, status |-> "ok", content |-> ManifestAt(p, wgUp),
                          upstream |-> TRUE]
            /\ wgFiles' = [wgFiles EXCEPT ![p] = [has |-> TRUE, content |-> ManifestAt(p, wgUp)]]
            /\ mfFirst' = IF mfFirst[p] = "" THEN [mfFirst EXCEPT ![p] = ManifestAt(p, wgUp)]
                          ELSE mfFirst
       ELSE /\ mfCall' = [path |-> p, status |-> "failed", content |-> "", upstream |-> TRUE]
            /\ UNCHANGED <<wgFiles, mfFirst>>
  /\ UNCHANGED <<wgNow, wgUp, wgStore, wgReqVars, cdnVars, cacheVars, msVars, auxVars>>

\* Time passes.
WgTick ==
  /\ wgNow < MaxClock
  /\ wgNow' = wgNow + 1
  /\ UNCHANGED <<wgUp, wgStore, wgFiles, mfVars, wgReqVars, cdnVars, cacheVars, msVars, auxVars>>

\* A commit lands on the branch of the manifest repository.
WgPush ==
  /\ wgUp < MaxRev
  /\ wgUp' = wgUp + 1
  /\ UNCHANGED <<wgNow, wgStore, wgFiles, mfVars, wgReqVars, cdnVars, cacheVars, msVars, auxVars>>

\* The storage after one complete rebuild at time 0 against revision 1.
WgWarm ==
  /\ wgManifests = ShaItem(1, 0)
  /\ wgLetters = [l \in Letters |-> Item(LetterTree(l, 1), 0)]
  /\ wgIndex = Item(UNION {indexEntries(LetterTree(l, 1)) : l \in Letters}, 0)

InitWinget ==
  /\ eco = "npm"
  /\ variant = "bg"
  /\ version = V_1_2_3
  /\ CacheInit
  /\ ResolverIdle
  /\ wgNow = 0
  /\ wgUp = 1
  /\ WgCold \/ WgWarm
  /\ WgNoRequest
  /\ SearchIdle
  /\ AuxIdle

NextWinget ==
  \/ WgTick
  \/ WgPush
  \/ \E t \in Tasks :
       \/ WgRequest(t)
       \/ GetMeta(t)
       \/ GetFresh(t)
       \/ GetStale(t)
       \/ LetterShas(t)
       \/ \E l \in Letters : TreePaths(t, l)
       \/ PutIndex(t)
       \/ PutMeta(t)

SpecWinget == InitWinget /\ [][NextWinget]_vars

\* One buildPackageIndex call, the first of the behaviour.
WgFirstRequest ==
  /\ wgN = 0
  /\ WgRequest(1)

\* The manifest file cache next to the index: fetchManifestContent calls
\* while time passes, the branch moves and one caller reads or rebuilds the
\* index.
NextManifest ==
  \/ WgTick
  \/ WgPush
  \/ \E p \in ManifestPaths : FetchManifestContent(p)
  \/ WgFirstRequest
  \/ GetMeta(1)
  \/ GetFresh(1)
  \/ GetStale(1)
  \/ LetterShas(1)
  \/ \E l \in Letters : TreePaths(1, l)
  \/ PutIndex(1)
  \/ PutMeta(1)

SpecManifest == InitWinget /\ [][NextManifest]_vars

\* ---------------------------------------------------------- manifestSearch
\* The query filter of the search handler for one package of the index.
InitSearch ==
  /\ eco = "npm"
  /\ variant = "bg"
  /\ version = V_1_2_3
  /\ CacheInit
  /\ ResolverIdle
  /\ wgNow = 0
  /\ wgUp = 1
  /\ WgCold
  /\ WgNoRequest
  /\ msText \in SearchTexts
  /\ msKeyword \in SearchKeywords
  /\ msType \in MatchTypes \cup {""}
  /\ msPc = "start"
  /\ msHit = FALSE
  /\ msVersions \in VersionSets
  /\ msOut = <<>>
  /\ AuxIdle

\* for (const [packageId, versions] of packageIndex.entries()): the query
\* match decides whether the package is pushed to the results.
Search ==
  /\ msPc = "start"
  /\ msHit' = queryKeeps(msText, msKeyword, msType)
  /\ msOut' = IF msHit' THEN resultVersions(msVersions) ELSE <<>>
  /\ msPc' = "done"
  /\ UNCHANGED <<msText, msKeyword, msType, msVersions, cdnVars, cacheVars, wgVars, auxVars>>

NextSearch == Search

SpecSearch == InitSearch /\ [][NextSearch]_vars

\* ------------------------------------------------------------ package list
\* GET /registry/winget/packages against an unchanged index, and a client
\* that follows the continuation tokens.
InitPackages ==
  /\ eco = "npm"
  /\ variant = "bg"
  /\ version = V_1_2_3
  /\ CacheInit
  /\ ResolverIdle
  /\ wgNow = 0
  /\ wgUp = 1
  /\ WgCold
  /\ WgNoRequest
  /\ SearchIdle
  /\ \E n \in PackageCounts : pkIndex = indexOf(n)
  /\ pkToken \in FirstTokens
  /\ pkFirst = pkToken
  /\ pkPc = "request"
  /\ pkPage = NoPage
  /\ pkSeen = <<>>
  /\ pkPages = 0
  /\ ExtractIdle
  /\ WpIdle

\* The handler answers the request that carries pkToken.
GetPackages ==
  /\ pkPc = "request"
  /\ pkPage' = packagesPage(pkIndex, pkToken)
  /\ pkSeen' = pkSeen \o pkPage'.Data
  /\ pkPages' = pkPages + 1
  /\ pkPc' = IF pkPage'.ContinuationToken = <<>> THEN "end" ELSE "page"
  /\ UNCHANGED <<pkIndex, pkToken, pkFirst, cdnVars, cacheVars, wgVars, msVars, txVars, wpVars>>

\* The client asks for the next page with the token it was given.
FollowToken ==
  /\ pkPc = "page"
  /\ pkToken' = pkPage.ContinuationToken
  /\ pkPc' = "request"
  /\ UNCHANGED <<pkIndex, pkFirst, pkPage, pkSeen, pkPages, cdnVars, cacheVars, wgVars,
                 msVars, txVars, wpVars>>

NextPackages == GetPackages \/ FollowToken

SpecPackages == InitPackages /\ [][NextPackages]_vars

\* Every request is answered and every client goes on to the next page.
SpecPackagesFair == SpecPackages /\ WF_vars(NextPackages)

\* ------------------------------------------------------ tarball extraction
\* The root detection and path stripping of a hydration, for an archive and
\* an ecosystem.
InitExtract ==
  /\ eco \in {"npm", "gh"}
  /\ variant = "bg"
  /\ version = IF eco = "npm" THEN V_1_2_3 ELSE V_v1_2_3
  /\ CacheInit
  /\ ResolverIdle
  /\ wgNow = 0
  /\ wgUp = 1
  /\ WgCold
  /\ WgNoRequest
  /\ SearchIdle
  /\ PackagesIdle
  /\ txArchive \in Archives
  /\ txPc = "start"
  /\ txRoot = <<>>
  /\ txNames = <<>>
  /\ WpIdle

Extract ==
  /\ txPc = "start"
  /\ txRoot' = rootDirOf(eco, txArchive)
  /\ txNames' = extractNames(eco, txArchive)
  /\ txPc' = "done"
  /\ UNCHANGED <<txArchive, cdnVars, cacheVars, wgVars, msVars, pkVars, wpVars>>

NextExtract == Extract

SpecExtract == InitExtract /\ [][NextExtract]_vars

\* -------------------------------------------------------- WordPress plugins
\* The /cdn/wp handler with fetchAndCacheFile on the keys cdn/wp/plugins/...
\* One request: the cached bytes, else the SVN file (or the jsDelivr copy),
\* which is handed to a setItemRaw that is not awaited; a failed fetch
\* answers 404 or 502.
WpRequest(p, svnOk, cdnOk, notFound) ==
  /\ wpFlip' = ~wpFlip
  /\ LET target == wpTargetOf(p)
     IN IF target.status # 0
        THEN /\ wpResp' = [NoWpResp EXCEPT !.path = p, !.status = target.status]
             /\ UNCHANGED wpPending
        ELSE IF wpCache[target.key] # NoBytes
        THEN /\ wpResp' = [path |-> p, status |-> 200, body |-> wpCache[target.key],
                           key |-> target.key, url |-> target.url]
             /\ UNCHANGED wpPending
        ELSE IF svnOk \/ cdnOk
        THEN /\ wpResp' = [path |-> p, status |-> 200, body |-> wpUpstream(target.url, wpRev),
                           key |-> target.key, url |-> target.url]
             /\ wpPending' = wpPending \cup
                  {[key |-> target.key, data |-> wpUpstream(target.url, wpRev)]}
        ELSE /\ wpResp' = [path |-> p, status |-> IF notFound THEN 404 ELSE 502,
                           body |-> NoBytes, key |-> target.key, url |-> target.url]
             /\ UNCHANGED wpPending
  /\ UNCHANGED <<wpCache, wpRev, cdnVars, cacheVars, wgVars, msVars, pkVars, txVars>>

\* A request that finds the upstream reachable.
WpRequestOk(p) == WpRequest(p, TRUE, TRUE, FALSE)

\* A detached storage.setItemRaw(cacheKey, data) lands, or fails and is logged.
WpWrite(w, ok) ==
  /\ w \in wpPending
  /\ wpPending' = wpPending \ {w}
  /\ wpCache' = IF ok THEN [wpCache EXCEPT ![w.key] = w.data] ELSE wpCache
  /\ UNCHANGED <<wpRev, wpResp, wpFlip, cdnVars, cacheVars, wgVars, msVars, pkVars, txVars>>

\* A commit to the plugin's trunk.
WpCommit ==
  /\ wpRev < MaxRev
  /\ wpRev' = wpRev + 1
  /\ UNCHANGED <<wpCache, wpPending, wpResp, wpFlip, cdnVars, cacheVars, wgVars, msVars,
                 pkVars, txVars>>

InitWp ==
  /\ eco = "npm"
  /\ variant = "bg"
  /\ version = V_1_2_3
  /\ CacheInit
  /\ ResolverIdle
  /\ wgNow = 0
  /\ wgUp = 1
  /\ WgCold
  /\ WgNoRequest
  /\ SearchIdle
  /\ PackagesIdle
  /\ ExtractIdle
  /\ WpIdle

NextWp ==
  \/ \E p \in WpPaths : \E svnOk, cdnOk, notFound \in BOOLEAN :
       WpRequest(p, svnOk, cdnOk, notFound)
  \/ \E w \in wpPending : \E ok \in BOOLEAN : WpWrite(w, ok)
  \/ WpCommit

SpecWp == InitWp /\ [][NextWp]_vars

\* Requests for every path keep coming and find the upstream reachable,
\* detached writes land, and the trunk gets its commits.
SpecWpFair ==
  /\ SpecWp
  /\ \A p \in WpPaths : WF_vars(WpRequestOk(p))
  /\ WF_vars(\E w \in wpPending : WpWrite(w, TRUE))
  /\ WF_vars(WpCommit)


TypeOK ==
  /\ rev \in 1..MaxRev
  /\ nreq \in 0..MaxReq
  /\ \A f \in Files : raw[f] \in 0..MaxRev
  /\ \A t \in Tasks : dl[t] \in 0..2 /\ resp[t].status \in {0, 200, 404, 500, 502}


\* ------------------------------------------------------------------ claims
Names(list) == {list[i].name : i \in 1..Len(list)}

\* C1: absent storage write failures, whenever a manifest exists every file
\* it lists has a raw key.
C1_ManifestIsCommitPoint ==
  (fault # "write" /\ meta.present) => \A f \in Names(meta.files) : raw[f] # Absent

\* C2: for an immutable key, once a manifest exists no step changes its
\* FileEntry list or the bytes stored at the raw keys it lists.
C2_ManifestFinal ==
  [][(fault = "none" /\ Immutable /\ meta.present) =>
       (meta' = meta /\ \A f \in Names(meta.files) : raw'[f] = raw[f])]_vars

\* C3: every integrity value of the stored manifest is the SHA-256 of the
\* bytes currently stored at the entry's raw key, for mutable keys too.
C3_IntegrityMatchesBytes ==
  meta.present =>
    \A i \in 1..Len(meta.files) :
      meta.files[i].integrity # Absent =>
        meta.files[i].integrity = calculateIntegrity(raw[meta.files[i].name])

\* C4: a warmup for a mutable key never returns early because a manifest of
\* an earlier hydration exists.
C4_MutableWarmupNeverSkips ==
  \A t \in Tasks : (fault = "none" /\ early[t]) => Immutable

\* C5: for a mutable key that requests re-hydrate (remove, per-file writes,
\* manifest write), a stored manifest is a complete one: the files it lists
\* are those of one tarball revision and the raw keys hold that revision's bytes.
C5_MutableManifestComplete ==
  (variant = "ensure" /\ ~Immutable /\ fault = "none" /\ meta.present) =>
    \E r \in 1..MaxRev :
      /\ Names(meta.files) = {f \in Files : Tarball(r)[f] # Absent}
      /\ \A f \in Names(meta.files) : raw[f] = Tarball(r)[f]

\* C6: for a key marked immutable, every cache hit returns the bytes that the
\* first cache hit of that path returned.
C6_ImmutableHitsStable ==
  Immutable =>
    \A t \in Tasks :
      (resp[t].status = 200 /\ resp[t].hit) => resp[t].body = firstHit[path[t]]

C6_Witness ==
  /\ Immutable
  /\ \E t, u \in Tasks :
       /\ t # u
       /\ path[t] = path[u]
       /\ resp[t].status = 200 /\ resp[t].hit
       /\ resp[u].status = 200 /\ resp[u].hit

\* C7: a file request causes at most one upstream tarball download, the
\* warmup it schedules included.
C7_OneDownloadPerFileRequest ==
  \A t \in Tasks : kind[t] = "file" => dl[t] <= 1

C9_FailedFileNotListed ==
  \A t \in Tasks : \A f \in Files :
    (wpc[t] = "done" /\ fpc[t][f] = "failed" /\ meta.present /\ meta.files = fileList[t])
      => f \notin Names(meta.files)

\* C10: a storage failure never fails a file request: no file request is
\* answered 500.
C10_StorageFailureNeverFailsRequest ==
  \A t \in Tasks : kind[t] = "file" => resp[t].status # 500

\* The immutability rule of the data model for a version string of
\* ecosystem e.
DataModelImmutable(e, v) ==
  IF e \in {"npm", "jsr"} THEN SemverPrefix(v)
  ELSE IF e = "gh" THEN Is40Hex(v) \/ (~isBranch(v) /\ SemverPrefix(StripV(v)))
  ELSE SemverPrefix(StripV(v))

Answered == rpc \in {"resolved", "again"}

\* C11: in every ecosystem, a request whose specifier is one of the
\* published version strings resolves to exactly that string, and the header
\* of its file response is the immutable one iff the data model marks the
\* string immutable.
C11_PublishedVersionResolvesToItself ==
  (Answered /\ apiOk /\ Includes(published, specifier)) =>
    /\ res.status = 200
    /\ res.version = specifier
    /\ res.branch # "listing" =>
         (res.cc = CC_immutable <=> DataModelImmutable(eco, specifier))

C11_Witness ==
  /\ Answered /\ apiOk
  /\ Includes(published, specifier)
  /\ specifier # sortedFirst(published)
  /\ specifier # distTag
  /\ res.version = specifier
  /\ res.branch = "file"
  /\ res.cc = CC_immutable

\* C12: resolving the version a resolution returned, against the same
\* metadata, returns that version again, with the same header class.
C12_ResolutionIdempotent ==
  rpc = "again" =>
    /\ res2.status = 200
    /\ res2.version = res.version
    /\ CacheControl(eco, res.version, res2.version) = CacheControl(eco, specifier, res.version)

C12_Witness ==
  /\ rpc = "again"
  /\ ~Includes(published, specifier)
  /\ res.version # specifier
  /\ Includes(published, res.version)
  /\ res2.version = res.version

\* The candidate of the resolution algorithm for specifier x: the first
\* applicable of exact match, max_satisfying, the latest tag, the highest
\* published version; NoVersion when there is none.
Candidate(V, tag, x) ==
  IF Includes(V, x) THEN x
  ELSE IF maxSatisfying(V, x) # NoVersion THEN maxSatisfying(V, x)
  ELSE IF tag # NoVersion THEN tag
  ELSE sortedFirst(V)

\* C13 (its 404 clause): with the metadata at hand, a request is answered
\* 404 "Version not found" only when the algorithm has no candidate at all;
\* a non-empty version list without a latest tag still yields the highest
\* version.
C13_NotFoundOnlyWithoutCandidate ==
  (Answered /\ apiOk /\ res.status = 404) =>
    Candidate(published, distTag, specifier) = NoVersion

\* C14: GitHub: a specifier that is a commit SHA or a branch name is the
\* resolved version, and the tarball fetched is that of this commit or
\* branch, whatever the jsDelivr list holds.
C14_GitHubLiteralPassesThrough ==
  (Answered /\ eco = "gh" /\ (Is40Hex(specifier) \/ isBranch(specifier))) =>
    /\ res.status = 200
    /\ res.version = specifier
    /\ getGitHubTarballUrl(res.version) = getGitHubTarballUrl(specifier)

\* C15: GitHub: a request without a version specifier is served from the
\* tarball of the main branch.
C15_GitHubDefaultsToMain ==
  (Answered /\ eco = "gh" /\ specifier = NoVersion) =>
    /\ res.status = 200
    /\ getGitHubTarballUrl(res.version) = [ref |-> "heads", name |-> V_main]

IsAlias(x) == Range(x).ok /\ ~valid(x)

\* C17: an npm file or entry request whose specifier is partial or a range
\* carries the short header.
C17_NpmAliasGetsShortCache ==
  (Answered /\ eco = "npm" /\ IsAlias(specifier) /\ res.status = 200
     /\ res.branch # "listing") => res.cc = CC_short

\* C18: GitHub: a file or entry response carries the immutable header iff
\* the resolved version is a 40-hex commit or a complete semver with an
\* optional leading v.
C18_GitHubImmutableClassification ==
  (Answered /\ eco = "gh" /\ res.status = 200 /\ res.branch # "listing") =>
    (res.cc = CC_immutable <=>
       (Is40Hex(res.version) \/ SemverPrefix(StripV(res.version))))

\* C19: a root request whose raw URL ends with a slash gets the directory
\* listing, and one without the slash never gets it, in every ecosystem.
C19_RootBranchFollowsSlash ==
  (Answered /\ atRoot /\ res.status = 200) =>
    /\ hasTrailingSlash => res.branch = "listing"
    /\ ~hasTrailingSlash => res.branch # "listing"

\* Revision r of the package has a file below directory dir.
HasFileBelow(r, dir) == \E f \in Files : Tarball(r)[f] # Absent /\ IsBelow(f, dir)

\* C20: a request for a path that is not a file of the package is answered
\* 404 only when no file of the package lies below that path: otherwise the
\* handler hydrates the package if need be and answers with the listing.
C20_DirectoryFallbackHydrates ==
  \A t \in Tasks :
    (kind[t] = "file" /\ path[t] \notin Files /\ resp[t].status = 404) =>
      \E r \in 1..rev : ~HasFileBelow(r, path[t])

\* C21: a GitHub root request without trailing slash is answered with
\* README.md when the repository has one, else with index.js when it has
\* that, and with 404 only when it has neither.
C21_GitHubEntryFallsBackToIndex ==
  (Answered /\ eco = "gh" /\ res.status = 200 /\ res.branch = "entry") =>
    /\ hasReadme => (entry.status = 200 /\ entry.file = "README.md")
    /\ (~hasReadme /\ hasIndex) => (entry.status = 200 /\ entry.file = "index.js")
    /\ entry.status = 404 => (~hasReadme /\ ~hasIndex)

\* C22: when the metadata fetch of npm, JSR or GitHub fails, a 4xx response
\* is answered 404 (PackageNotFound) and a 5xx response or a network error
\* is answered 502 (UpstreamUnavailable).
C22_MetadataFailureMapping ==
  (Answered /\ eco \in {"npm", "jsr", "gh"} /\ ~apiOk /\ res.api) =>
    /\ apiFailure = "4xx" => res.status = 404
    /\ apiFailure \in {"5xx", "network"} => res.status = 502

\* The hydration awaited by a listing or +esm request ended at the tarball
\* download: it passed the manifest check and fetched nothing.
AwaitedDownloadFailed(t) ==
  /\ kind[t] \in {"list", "esm"}
  /\ wpc[t] = "done"
  /\ ~early[t]
  /\ tar[t] = 0

\* C23: absent storage failures, a root listing or +esm request whose
\* tarball download failed is answered 502, never 200 with an empty file
\* list nor another status.
C23_TarballFailureIs502 ==
  \A t \in Tasks :
    (fault = "none" /\ pc[t] = "done" /\ AwaitedDownloadFailed(t)) =>
      resp[t].status = 502

\* C24: a buildPackageIndex call that finds a cached index returns it: with
\* age < 600 s without any rebuild (no upstream call, no write), with
\* age >= 600 s without waiting, the rebuild running as a detached task.
C24_StaleWhileRevalidate ==
  \A t \in Tasks :
    (wgPc[t] = "done" /\ wgAge[t] # NoTime) =>
      /\ wgResp[t].status = 200 /\ wgResp[t].via = "cache"
      /\ wgAge[t] < UPDATE_INTERVAL => wgRb[t] = "none"
      /\ wgAge[t] >= UPDATE_INTERVAL => wgRb[t] # "none"

\* C25: a buildPackageIndex call that finds no cached value (no mtime meta)
\* never answers from the cache; when it returns an index, its own rebuild
\* has completed, the value returned is the index that rebuild built, and
\* the index key holds an index and an mtime.
C25_NoCacheRebuildsFirst ==
  \A t \in Tasks :
    (wgPc[t] = "done" /\ wgAge[t] = NoTime) =>
      /\ wgResp[t].via # "cache"
      /\ wgResp[t].status = 200 =>
           /\ wgRb[t] = "done"
           /\ \A l \in Letters : wgGot[t][l] # Pending
           /\ wgResp[t].pkgs = wgBuilt[t]
           /\ wgIndex.has /\ wgIndex.mtime # NoTime

C25_Witness ==
  \E t \in Tasks :
    /\ wgPc[t] = "done" /\ wgAge[t] = NoTime
    /\ wgResp[t].status = 200 /\ wgResp[t].via = "rebuild"
    /\ wgResp[t].pkgs # {}
    /\ wgIndex.value = wgResp[t].pkgs

\* The letters whose tree paths the rebuild of t obtained, and the index
\* entries of their manifests.
Succeeded(t) == {l \in Letters : wgGot[t][l].state = "ok"}
PackagesOfSucceeded(t) ==
  {e \in UNION {indexEntries(LetterTree(l, r)) : l \in Letters, r \in 1..MaxRev} :
     \E l \in Succeeded(t) : \E q \in wgGot[t][l].paths :
        endsWithYaml(q) /\ e = <<parsePackageIdentifier(q), parseVersion(q)>>}

\* Some letters failed and some succeeded.
PartialRebuild(t) ==
  /\ \A l \in Letters : wgGot[t][l] # Pending
  /\ Succeeded(t) # {}
  /\ Succeeded(t) # Letters

\* C26: a rebuild in which a proper, non-empty subset of the letter fetches
\* failed does not fail: it stores exactly the packages of the letters that
\* succeeded, then the current time as mtime, and an awaiting caller gets
\* that partial index.
C26_PartialRebuildStored ==
  [][\A t \in Tasks :
       PartialRebuild(t) =>
         /\ wgRb'[t] # "failed"
         /\ (wgRb[t] = "letters" /\ wgRb'[t] = "mtime") =>
              (wgIndex'.has /\ wgIndex'.value = PackagesOfSucceeded(t))
         /\ (wgRb[t] = "mtime" /\ wgRb'[t] = "done") =>
              /\ wgIndex'.mtime = wgNow
              /\ Awaited(t) => wgResp'[t] = WgReply(200, PackagesOfSucceeded(t), "rebuild")]_vars

C26_Witness ==
  \E t \in Tasks :
    /\ wgRb[t] = "done"
    /\ PartialRebuild(t)
    /\ wgResp[t].via = "rebuild"
    /\ wgResp[t].pkgs = PackagesOfSucceeded(t)
    /\ wgIndex.value = PackagesOfSucceeded(t)
    /\ wgIndex.value # {}
    /\ wgIndex.mtime = wgNow

\* The rebuild of t has built its index.
HasBuilt(t) == wgRb[t] \in {"mtime", "done"}

\* C27: the index key only ever takes the output of one rebuild, as a
\* whole; and rebuilds that ran against the same upstream data build the
\* same index, so that the later write leaves the stored value unchanged.
C27_RebuildsIdempotent ==
  /\ [][wgIndex'.value # wgIndex.value =>
          \E t \in Tasks : /\ wgRb[t] = "letters" /\ wgRb'[t] = "mtime"
                            /\ wgIndex'.value = wgBuilt'[t]]_vars
  /\ [](\A t, u \in Tasks :
          (HasBuilt(t) /\ HasBuilt(u) /\ wgSha[t] = wgSha[u]) => wgBuilt[t] = wgBuilt[u])

\* C28: once a fetchManifestContent call for a path has succeeded, every
\* later call for that path returns that same content from the files key
\* without an upstream request, whatever time has passed and whatever the
\* branch and the index have become; a failed fetch stores nothing.
C28_ManifestCachedForever ==
  [][mfCalls' # mfCalls =>
       /\ mfFirst[mfCall'.path] # "" =>
            /\ mfCall'.status = "ok"
            /\ mfCall'.content = mfFirst[mfCall'.path]
            /\ ~mfCall'.upstream
       /\ mfCall'.status = "failed" => wgFiles' = wgFiles]_vars

C28_Witness ==
  /\ mfCall.status = "ok"
  /\ ~mfCall.upstream
  /\ mfCall.content = mfFirst[mfCall.path]
  /\ mfCall.content # ManifestAt(mfCall.path, wgUp)
  /\ wgNow >= UPDATE_INTERVAL
  /\ wgRb[1] = "done"

\* Lower-casing, character by character.
LowerCased(s) ==
  [i \in 1..Len(s) |->
     CASE s[i] = "A" -> "a" [] s[i] = "B" -> "b" [] s[i] = "C" -> "c"
       [] s[i] = "M" -> "m" [] s[i] = "S" -> "s" [] s[i] = "V" -> "v"
       [] OTHER -> s[i]]

IsPrefix(a, b) == \E j \in 0..Len(b) : SubSeq(b, 1, j) = a
IsSubstring(a, b) == \E i \in 1..(Len(b) + 1) : \E j \in (i - 1)..Len(b) : SubSeq(b, i, j) = a

\* The match type in force and the match it stands for, on lower-cased
\* strings.
EffectiveType == IF msType = "" THEN "CaseInsensitive" ELSE msType
PlainMatch(t, k) ==
  IF EffectiveType = "Exact" THEN t = k
  ELSE IF EffectiveType = "StartsWith" THEN IsPrefix(k, t)
  ELSE IsSubstring(k, t)

RECURSIVE IsSubsequenceFrom(_, _, _, _)
IsSubsequenceFrom(k, t, i, j) ==
  i > Len(k) \/ \E m \in j..Len(t) : t[m] = k[i] /\ IsSubsequenceFrom(k, t, i + 1, m + 1)

IsSubsequence(k, t) == IsSubsequenceFrom(k, t, 1, 1)

IsSpace(c) == c = " " \/ c = "\t"

\* C30: Fuzzy holds iff the lower-cased keyword is a subsequence of the
\* lower-cased text (vscode matches Microsoft.VisualStudioCode), and
\* FuzzySubstring iff it is a subsequence of one whitespace-delimited word.
C30_FuzzyIsSubsequence ==
  (msPc = "done" /\ msKeyword # <<>>) =>
    /\ msType = "Fuzzy" =>
         msHit = IsSubsequence(LowerCased(msKeyword), LowerCased(msText))
    /\ (msType = "Fuzzy" /\ msText = T_VSCode /\ msKeyword = K_vscode) => msHit
    /\ msType = "FuzzySubstring" =>
         msHit = \E i \in 1..Len(msText) : \E j \in i..Len(msText) :
                   /\ \A m \in i..j : ~IsSpace(msText[m])
                   /\ i = 1 \/ IsSpace(msText[i - 1])
                   /\ j = Len(msText) \/ IsSpace(msText[j + 1])
                   /\ IsSubsequence(LowerCased(msKeyword), LowerCased(SubSeq(msText, i, j)))

C30_Witness ==
  /\ msPc = "done"
  /\ msType = "Fuzzy"
  /\ msText = T_VSCode
  /\ msKeyword = K_vscode
  /\ ~includes(toLowerCase(msText), msKeyword)
  /\ msHit

\* The numeric components of a version string, and the versions of a set
\* that have fewer than n newer versions in it.
Components(v) == ParsePartial(v).v
NewerIn(v, set) == {w \in set : Lt(Components(v), Components(w))}
Newest(set, n) == {v \in set : Cardinality(NewerIn(v, set)) < n}

\* C31: a pushed result lists at most 10 versions, they are the 10 newest
\* versions of the package, and they are ordered newest first.
C31_TenNewestVersions ==
  (msPc = "done" /\ msHit) =>
    /\ Len(msOut) <= 10
    /\ {msOut[i] : i \in 1..Len(msOut)} = Newest(msVersions, 10)
    /\ \A i \in 1..Len(msOut) : \A j \in (i + 1)..Len(msOut) :
         Lt(Components(msOut[j]), Components(msOut[i]))

\* The identifiers of the index in ascending order.
Ascending(n) == [i \in 1..n |-> i]

\* C32: a traversal that starts without a token gets pages of at most 100
\* entries, which are consecutive pieces of the ascending package list; it
\* ends with a page without a token, and all pages together are then the
\* whole list, each package once.
C32_PaginationTraversal ==
  /\ [](pkFirst = <<>> /\ pkPc # "idle" =>
          /\ Len(pkPage.Data) <= 100
          /\ pkSeen = SubSeq(Ascending(Len(pkIndex)), 1, Len(pkSeen))
          /\ pkPc = "end" =>
               pkSeen = Ascending(Len(pkIndex)) /\ pkPage.ContinuationToken = <<>>)
  /\ (pkFirst = <<>> /\ pkPc = "request") ~> (pkPc = "end")

C32_Witness ==
  /\ pkFirst = <<>>
  /\ pkPc = "end"
  /\ pkPages = 3
  /\ Len(pkIndex) = 250
  /\ Len(pkSeen) = 250

\* Tokens whose decoded text does not start with a number: YWJj (abc) and
\* abcd.
NonNumericTokens == {<<"Y", "W", "J", "j">>, <<"a", "b", "c", "d">>}

\* C36: a first request with a token that does not decode to a number is
\* answered like a request without a token.
C36_BadTokenIsFirstPage ==
  (pkPages = 1 /\ pkFirst \in NonNumericTokens) =>
    /\ Len(pkPage.Data) = (IF Len(pkIndex) < 100 THEN Len(pkIndex) ELSE 100)
    /\ pkPage.Data = SubSeq(Ascending(Len(pkIndex)), 1, Len(pkPage.Data))
    /\ (pkPage.ContinuationToken # <<>>) = (Len(pkIndex) > 100)

\* C33: without storage failures, a directory listing of a hydrated
\* immutable key carries an integrity value for every file it lists.
C33_ListingsCarryIntegrity ==
  \A t \in Tasks :
    (/\ Immutable
     /\ fault = "none"
     /\ kind[t] = "list"
     /\ pc[t] = "done"
     /\ resp[t].status = 200) =>
      \A i \in 1..Len(resp[t].files) : resp[t].files[i].integrity # Absent

\* The first entry with a separator that is not the pax header, and the
\* first segment of its name.
IsContent(n) ==
  /\ \E i \in 1..Len(n) : n[i] = "/"
  /\ Len(n) < Len(PaxHeader) \/ SubSeq(n, 1, Len(PaxHeader)) # PaxHeader
HasContent == \E i \in 1..Len(txArchive) : IsContent(txArchive[i].name)
FirstContent ==
  txArchive[CHOOSE i \in 1..Len(txArchive) :
              /\ IsContent(txArchive[i].name)
              /\ \A j \in 1..(i - 1) : ~IsContent(txArchive[j].name)].name
RootSegment ==
  SubSeq(FirstContent, 1, (CHOOSE i \in 1..Len(FirstContent) :
                             FirstContent[i] = "/"
                               /\ \A j \in 1..(i - 1) : FirstContent[j] # "/") - 1)

\* C34: the root is the first segment of the first entry with a separator
\* that is not the pax header, and every cached name is its entry's name
\* without that root and its separator.
C34_StripsOneRootSegment ==
  (txPc = "done" /\ HasContent) =>
    /\ txRoot = RootSegment
    /\ \A i \in 1..Len(txNames) :
         txNames[i].cached => txNames[i].from = RootSegment \o <<"/">> \o txNames[i].name

\* The part of a trunk request path after plugins/<p>/trunk.
TrunkFile(rp) == SubSeq(rp, 4, Len(rp))
IsTrunkRequest(rp) == Len(rp) >= 4 /\ rp[1] = "plugins" /\ rp[3] = "trunk"

\* C35: an answered trunk request for file path P of plugin p was fetched
\* from p/trunk/P and cached under cdn/wp/plugins/p/trunk/P, and its bytes
\* are those of that upstream file.
C35_TrunkPathKeepsItsKey ==
  (IsTrunkRequest(wpResp.path) /\ wpResp.status = 200) =>
    /\ wpResp.url = <<wpResp.path[2], "trunk">> \o TrunkFile(wpResp.path)
    /\ wpResp.key = <<"cdn", "wp", "plugins", wpResp.path[2], "trunk">>
                      \o TrunkFile(wpResp.path)
    /\ wpResp.body.url = <<wpResp.path[2], "trunk">> \o TrunkFile(wpResp.path)

\* C39: once the trunk has its last commit, every trunk path that keeps
\* being requested is eventually answered with the bytes of that commit.
C39_MutableKeysRefresh ==
  \A p \in {q \in WpPaths : IsTrunkRequest(q)} :
    [](wpRev = MaxRev =>
         <>(wpResp.path = p /\ wpResp.status = 200 /\ wpResp.body.rev = MaxRev))

\* The rebuild of task t fails in this step; it was handed to waitUntil.
RebuildFails(t) == wgRb[t] # "failed" /\ wgRb'[t] = "failed"
Detached(t) == wgPc[t] = "done"

\* C37: a rebuild that fails as a whole leaves the index item and its mtime
\* as they are; a detached one changes nothing of its request, which has
\* returned the cached value; if no other rebuild wrote the mtime the index
\* is still stale, and a call that reads the meta of a stale index goes on
\* to the stale branch or to a rebuild.
C37_FailedRebuildLeavesIndex ==
  [][\A t \in Tasks :
       /\ RebuildFails(t) =>
            /\ wgIndex' = wgIndex
            /\ Detached(t) =>
                 /\ wgResp[t].status = 200 /\ wgResp[t].via = "cache"
                 /\ wgResp'[t] = wgResp[t] /\ wgPc'[t] = "done"
                 /\ wgIndex.mtime = wgMtime[t] => ~isFresh(wgIndex'.mtime, wgNow')
       /\ (wgPc[t] = "meta" /\ wgPc'[t] # "meta" /\ wgIndex.mtime # NoTime
             /\ ~isFresh(wgIndex.mtime, wgNow)) =>
            \/ wgPc'[t] = "stale"
            \/ wgPc'[t] = "rebuild" /\ wgRb'[t] = "shas"]_vars

\* A detached rebuild has failed, and a later call has returned the stale
\* index and has a rebuild of its own under way.
C37_Witness ==
  \E t, u \in Tasks :
    /\ t # u
    /\ wgRb[t] = "failed" /\ wgPc[t] = "done" /\ wgResp[t].via = "cache"
    /\ wgIndex.mtime = wgMtime[t]
    /\ wgPc[u] = "done" /\ wgResp[u].via = "cache" /\ wgMtime[u] = wgMtime[t]
    /\ wgRb[u] = "shas"

\* The rebuild of task t is complete and every letter was read.
CompleteRebuild(t) ==
  wgRb[t] = "done" /\ \A l \in Letters : wgGot[t][l].state = "ok"

\* C38: when two complete rebuilds read different revisions, the index item
\* does not hold the snapshot of the older one under a fresh mtime.
C38_IndexNeverRegresses ==
  \A a, b \in Tasks :
    (/\ CompleteRebuild(a) /\ CompleteRebuild(b)
     /\ wgSha[a] < wgSha[b]
     /\ wgBuilt[a] # wgBuilt[b] /\ wgBuilt[a] \subseteq wgBuilt[b]) =>
      ~(wgIndex.value = wgBuilt[a] /\ isFresh(wgIndex.mtime, wgNow))

\* Every request so far asks for the directory d as a file path.
OnlyDirRequests == \A t \in Tasks : pc[t] # "idle" => kind[t] = "file" /\ path[t] = P_d

\* Task t's request for d was answered 404 because the package is not cached.
DirNotCached(t) ==
  /\ pc[t] = "done"
  /\ kind[t] = "file" /\ path[t] = P_d
  /\ ~isCached[t]
  /\ resp[t].status = 404

\* C40: when clients only ever request the directory d of an immutable key,
\* a request answered 404 for want of the manifest is followed by the
\* manifest being stored (so that a later identical request can list d).
C40_DirectoryRequestHydrates ==
  []OnlyDirRequests =>
    []((variant = "bg" /\ Immutable /\ \E t \in Tasks : DirNotCached(t)) => <>meta.present)

====
